---------------------------- MODULE Spec2Model ----------------------------
(***************************************************************************)
(* Model of src/crochet-pattern/src/App.jsx: the grid-size controls and    *)
(* image upload of App, the CropTool rectangle editor, and the conversion  *)
(* generatePattern with its seven algorithms.                              *)
(*                                                                         *)
(* Numbers.  JavaScript numbers are modelled by exact arithmetic:          *)
(*   - a luminance is an integer number of thousandths (gray[i] = 1000*L), *)
(*     the exact value of 0.299 r + 0.587 g + 0.114 b for byte channels;   *)
(*   - a crop coordinate is an integer number of 1/(20*Res) units, so that *)
(*     0.05 is Res units and 1 is 20*Res units;                            *)
(*   - an aspect ratio is the pair <<width, height>> of the image;         *)
(*   - a cell of the dithering error buffer is a record [i, c, d] standing *)
(*     for i + (c + 0.d)/1000 with 0 <= c < 1000 and d a sequence of       *)
(*     hexadecimal digits; c = -1 stands for NaN.                          *)
(* Rounding of IEEE doubles is outside the model, except in case           *)
(* 'adaptive': there a cell is compared with a mean of its neighbourhood,  *)
(* and when the two are equal in exact arithmetic the outcome is the one   *)
(* of the doubles of lines 360 and 485-496, which the model computes.      *)
(***************************************************************************)
EXTENDS Integers, Sequences, FiniteSets, TLC

VARIABLES
    \* ---- App state (useState, lines 204-221) ----
    image,            \* the decoded Image used by generatePattern, or NoImage
    imagePreview,     \* the data URL shown in the sidebar, or NoImage
    gridWidth,
    gridHeight,
    aspectLock,
    originalAspect,   \* <<w, h>> standing for w / h
    uploads,          \* FileReader / Image callbacks that have not fired yet
    started,          \* number of uploads started so far
    converted,        \* inputs of the generatePattern run that published the
                      \* current pattern, or NoRun when pattern is []
    \* ---- CropTool state (lines 60-64, 219) ----
    crop,
    dragging,
    startPos,
    startCrop,
    gestures,         \* number of mousedown events so far
    \* ---- conversion parameters and result (lines 208-218) ----
    data,             \* the pixels getImageData returns for the current
                      \* image, crop and grid size (line 397), index 0..n-1
    algorithm,
    threshold,
    invertColors,
    contrast,
    brightness,
    edgeSensitivity,
    adaptiveBlockSize,
    ditherStrength,
    pattern,          \* rows of cells; << >> is []
    run,              \* locals of a dithering run in progress: err, result
                      \* and what the last loop iteration read and wrote
    edits             \* number of parameter-control events so far

vars == <<image, imagePreview, gridWidth, gridHeight, aspectLock,
          originalAspect, uploads, started, converted,
          crop, dragging, startPos, startCrop, gestures,
          data, algorithm, threshold, invertColors, contrast, brightness,
          edgeSensitivity, adaptiveBlockSize, ditherStrength, pattern, run, edits>>

convVars == <<data, algorithm, threshold, invertColors, contrast, brightness,
              edgeSensitivity, adaptiveBlockSize, ditherStrength, pattern, run, edits>>

gridVars == <<image, imagePreview, gridWidth, gridHeight, aspectLock,
              originalAspect, uploads, started, converted>>
cropVars == <<crop, dragging, startPos, startCrop, gestures>>

-----------------------------------------------------------------------------
(* Bounds *)

MaxUploads == 2     \* uploads started in one behaviour
Res == 1            \* pointer resolution: units per 0.05 of the crop container
MaxGestures == 2    \* mousedown events in one behaviour
MaxW == 3           \* widest sampled grid of the conversion
MaxH == 3           \* tallest sampled grid of the conversion
Tones == 3          \* number of distinct pixel values in a sampled image
MaxEdits == 2       \* parameter-control events in one behaviour
MaxScanW == 4       \* widest grid of a dithering run followed cell by cell
MaxScanH == 3       \* tallest grid of a dithering run followed cell by cell
MaxEdgeW == 4       \* widest grid of an edge-detection run
MaxEdgeH == 4       \* tallest grid of an edge-detection run
MaxRunW == 2        \* widest grid of a conversion that is run again
MaxRunH == 2        \* tallest grid of a conversion that is run again

-----------------------------------------------------------------------------
(* Generic helpers *)

Max(a, b) == IF a >= b THEN a ELSE b
Min(a, b) == IF a <= b THEN a ELSE b

NoImage == [w |-> 0, h |-> 0]
NoRun == [img |-> NoImage, w |-> 0, h |-> 0]

\* Crop coordinates: the coordinate 1 and the coordinate 0.05.
One == 20 * Res
MinExtent == Res

\* The crop { x1: 0, y1: 0, x2: 1, y2: 1 } of lines 219, 227 and 320.
FullCrop == [x1 |-> 0, y1 |-> 0, x2 |-> One, y2 |-> One]

\* startCrop when it is null (lines 64, 116).
NoCrop == [x1 |-> 0, y1 |-> 0, x2 |-> 0, y2 |-> 0]

\* Math.round(n / d) for integers n >= 0, d > 0: round half up.
RoundDiv(n, d) == (2 * n + d) \div (2 * d)

-----------------------------------------------------------------------------
(* Grid size, aspect lock and upload                                       *)

\* The image files a user may pick: natural width and height.
ImageFiles == { [w |-> 400, h |-> 400], [w |-> 800, h |-> 100],
                [w |-> 100, h |-> 800], [w |-> 300, h |-> 200] }

\* Values the two range inputs (min 20, max 200) can deliver.
SliderValues == {20, 50, 200}

\* useEffect at lines 516-518: generatePattern runs when image is set; it
\* reads image, gridWidth, gridHeight and publishes the pattern.
RunEffect(img, w, h, old) ==
    IF img # NoImage THEN [img |-> img, w |-> w, h |-> h] ELSE old

\* handleImageUpload(file), lines 314-316 and 335: the callbacks close over
\* aspectLock and gridWidth of the render in which the upload was started.
handleImageUpload(file) ==
    /\ started < MaxUploads
    /\ started' = started + 1
    /\ uploads' = uploads \cup
           { [id |-> started + 1, file |-> file, stage |-> "reading",
              lock |-> aspectLock, gw |-> gridWidth] }
    /\ UNCHANGED <<image, imagePreview, gridWidth, gridHeight, aspectLock,
                   originalAspect, converted>>
    /\ UNCHANGED cropVars
    /\ UNCHANGED convVars

\* reader.onload, lines 317-334.
readerOnload(u) ==
    /\ u \in uploads
    /\ u.stage = "reading"
    /\ imagePreview' = u.file
    /\ crop' = FullCrop
    /\ uploads' = (uploads \ {u}) \cup {[u EXCEPT !.stage = "decoding"]}
    /\ converted' = RunEffect(image, gridWidth, gridHeight, converted)
    /\ UNCHANGED <<image, gridWidth, gridHeight, aspectLock, originalAspect,
                   started>>
    /\ UNCHANGED <<dragging, startPos, startCrop, gestures>>
    /\ UNCHANGED convVars

\* img.onload, lines 323-332.
imgOnload(u) ==
    /\ u \in uploads
    /\ u.stage = "decoding"
    /\ image' = u.file
    /\ originalAspect' = <<u.file.w, u.file.h>>
    /\ gridHeight' = IF u.lock THEN RoundDiv(u.gw * u.file.h, u.file.w)
                     ELSE gridHeight
    /\ uploads' = uploads \ {u}
    /\ converted' = RunEffect(image', gridWidth, gridHeight', converted)
    /\ UNCHANGED <<imagePreview, gridWidth, aspectLock, started>>
    /\ UNCHANGED cropVars
    /\ UNCHANGED convVars

\* handleWidthChange(v), lines 338-342.
handleWidthChange(v) ==
    LET w == Max(10, Min(200, v)) IN
    /\ gridWidth' = w
    /\ gridHeight' = IF aspectLock /\ originalAspect[1] # 0
                     THEN RoundDiv(w * originalAspect[2], originalAspect[1])
                     ELSE gridHeight
    /\ converted' = RunEffect(image, gridWidth', gridHeight', converted)
    /\ UNCHANGED <<image, imagePreview, aspectLock, originalAspect, uploads,
                   started>>
    /\ UNCHANGED cropVars
    /\ UNCHANGED convVars

\* handleHeightChange(v), lines 344-348.
handleHeightChange(v) ==
    LET h == Max(10, Min(200, v)) IN
    /\ gridHeight' = h
    /\ gridWidth' = IF aspectLock /\ originalAspect[1] # 0
                    THEN RoundDiv(h * originalAspect[1], originalAspect[2])
                    ELSE gridWidth
    /\ converted' = RunEffect(image, gridWidth', gridHeight', converted)
    /\ UNCHANGED <<image, imagePreview, aspectLock, originalAspect, uploads,
                   started>>
    /\ UNCHANGED cropVars
    /\ UNCHANGED convVars

\* The aspect-lock checkbox, line 631.
setAspectLock(b) ==
    /\ aspectLock' = b
    /\ UNCHANGED <<image, imagePreview, gridWidth, gridHeight, originalAspect,
                   uploads, started, converted>>
    /\ UNCHANGED cropVars
    /\ UNCHANGED convVars

\* The 'Remove Image' button, line 573 (rendered only when imagePreview is
\* set): setImage(null); setImagePreview(null); setPattern([]); resetCrop().
removeImage ==
    /\ imagePreview # NoImage
    /\ image' = NoImage
    /\ imagePreview' = NoImage
    /\ converted' = NoRun
    /\ crop' = FullCrop
    /\ UNCHANGED <<gridWidth, gridHeight, aspectLock, originalAspect, uploads,
                   started>>
    /\ UNCHANGED <<dragging, startPos, startCrop, gestures>>
    /\ UNCHANGED convVars

-----------------------------------------------------------------------------
(* CropTool                                                                *)

Handles == {"tl", "tr", "bl", "br", "t", "b", "l", "r", "move"}

\* Raw pointer positions (e.clientX - rect.left, e.clientY - rect.top) in
\* crop units; some lie outside the container.
Pointers == { <<0 - 3 * Res, 0 - Res>>, <<0, 0>>, <<1, One - 1>>,
              <<7 * Res, 4 * Res>>, <<12 * Res, 15 * Res>>,
              <<One, One>>, <<One + 2 * Res, One + 5 * Res>> }

\* String.prototype.includes on the handle name, lines 105-108.
includes(handle, c) ==
    CASE c = "l" -> handle \in {"tl", "bl", "l"}
      [] c = "r" -> handle \in {"tr", "br", "r"}
      [] c = "t" -> handle \in {"tl", "tr", "t"}
      [] c = "b" -> handle \in {"bl", "br", "b"}

\* getRelativePosition, lines 66-73.
getRelativePosition(p) ==
    [x |-> Max(0, Min(One, p[1])), y |-> Max(0, Min(One, p[2]))]

\* Variant: the left and top edges are not held back from the opposite edge.
movedCrop_noMin(handle, sc, dx, dy) ==
    IF handle = "move"
    THEN LET w == sc.x2 - sc.x1
             h == sc.y2 - sc.y1
             nx1 == Max(0, Min(One - w, sc.x1 + dx))
             ny1 == Max(0, Min(One - h, sc.y1 + dy))
         IN [x1 |-> nx1, y1 |-> ny1, x2 |-> nx1 + w, y2 |-> ny1 + h]
    ELSE LET nx1 == IF includes(handle, "l") THEN Max(0, sc.x1 + dx)
                    ELSE sc.x1
             nx2 == IF includes(handle, "r")
                    THEN Max(nx1 + MinExtent, Min(One, sc.x2 + dx))
                    ELSE sc.x2
             ny1 == IF includes(handle, "t") THEN Max(0, sc.y1 + dy)
                    ELSE sc.y1
             ny2 == IF includes(handle, "b")
                    THEN Max(ny1 + MinExtent, Min(One, sc.y2 + dy))
                    ELSE sc.y2
         IN [x1 |-> nx1, y1 |-> ny1, x2 |-> nx2, y2 |-> ny2]

\* The updater passed to setCrop in handleMouseMove, lines 94-111.
movedCrop(handle, sc, dx, dy) ==
    IF handle = "move"
    THEN LET w == sc.x2 - sc.x1
             h == sc.y2 - sc.y1
             nx1 == Max(0, Min(One - w, sc.x1 + dx))
             ny1 == Max(0, Min(One - h, sc.y1 + dy))
         IN [x1 |-> nx1, y1 |-> ny1, x2 |-> nx1 + w, y2 |-> ny1 + h]
    ELSE LET nx1 == IF includes(handle, "l")
                    THEN Max(0, Min(sc.x2 - MinExtent, sc.x1 + dx))
                    ELSE sc.x1
             nx2 == IF includes(handle, "r")
                    THEN Max(nx1 + MinExtent, Min(One, sc.x2 + dx))
                    ELSE sc.x2
             ny1 == IF includes(handle, "t")
                    THEN Max(0, Min(sc.y2 - MinExtent, sc.y1 + dy))
                    ELSE sc.y1
             ny2 == IF includes(handle, "b")
                    THEN Max(ny1 + MinExtent, Min(One, sc.y2 + dy))
                    ELSE sc.y2
         IN [x1 |-> nx1, y1 |-> ny1, x2 |-> nx2, y2 |-> ny2]

\* handleMouseDown(e, handle), lines 75-82.  CropTool is mounted only while
\* an image preview exists (line 743).
handleMouseDown(handle, p) ==
    /\ imagePreview # NoImage
    /\ gestures < MaxGestures
    /\ gestures' = gestures + 1
    /\ dragging' = handle
    /\ startPos' = getRelativePosition(p)
    /\ startCrop' = crop
    /\ UNCHANGED crop
    /\ UNCHANGED gridVars
    /\ UNCHANGED convVars

\* handleMouseMove(e), lines 87-112; registered only while dragging.
handleMouseMove(p) ==
    /\ dragging # "none"
    /\ startCrop # NoCrop
    /\ LET pos == getRelativePosition(p)
           dx == pos.x - startPos.x
           dy == pos.y - startPos.y
       IN crop' = movedCrop(dragging, startCrop, dx, dy)
    /\ UNCHANGED <<dragging, startPos, startCrop, gestures>>
    /\ UNCHANGED gridVars
    /\ UNCHANGED convVars

\* handleMouseUp, lines 114-117.
handleMouseUp ==
    /\ dragging # "none"
    /\ dragging' = "none"
    /\ startCrop' = NoCrop
    /\ UNCHANGED <<crop, startPos, gestures>>
    /\ UNCHANGED gridVars
    /\ UNCHANGED convVars

\* isCropped, line 540: some edge is more than 0.01 away from the full crop.
isCropped ==
    \/ 100 * crop.x1 > One
    \/ 100 * crop.y1 > One
    \/ 100 * crop.x2 < 99 * One
    \/ 100 * crop.y2 < 99 * One

\* resetCrop, line 227, from the 'Reset' button (enabled when isCropped).
resetCrop ==
    /\ imagePreview # NoImage
    /\ isCropped
    /\ crop' = FullCrop
    /\ UNCHANGED <<dragging, startPos, startCrop, gestures>>
    /\ UNCHANGED gridVars
    /\ UNCHANGED convVars

-----------------------------------------------------------------------------
(* Arrays: a JavaScript array is a function on 0..n-1; << >> is [].        *)

Size(a) == Cardinality(DOMAIN a)

\* a.push(v)
Push(a, v) == [k \in 0..Size(a) |-> IF k < Size(a) THEN a[k] ELSE v]

\* a.slice(from, to), 0 <= from <= to: clipped to the length of a.
Slice(a, from, to) ==
    [k \in 0..(Min(to, Size(a)) - from - 1) |-> a[from + k]]

-----------------------------------------------------------------------------
(* Tone and grayscale, lines 350-360 and 400-403                           *)

\* A store into imageData.data, a Uint8ClampedArray: x100 / 100 rounded to
\* the nearest integer, ties to even (0 <= x100 <= 25500).
ToUint8Clamped(x100) ==
    LET q == x100 \div 100
        r == x100 % 100
    IN IF r < 50 THEN q
       ELSE IF r > 50 THEN q + 1
       ELSE IF q % 2 = 0 THEN q ELSE q + 1

\* One channel of applyContrastBrightness, line 354, in hundredths:
\* (v - 128) * contrast/100 + 128 + (brightness - 100) * 2.55, clamped.
adjustChannel(v, ct, br) ==
    ToUint8Clamped(Min(25500,
                       Max(0, (v - 128) * ct + 12800 + (br - 100) * 255)))

\* Variant: the loop of line 353 visits every entry, the alpha one too.
applyContrastBrightness_alpha(d, ct, br) ==
    [k \in DOMAIN d |->
        [r |-> adjustChannel(d[k].r, ct, br),
         g |-> adjustChannel(d[k].g, ct, br),
         b |-> adjustChannel(d[k].b, ct, br),
         a |-> adjustChannel(d[k].a, ct, br)]]

\* applyContrastBrightness(data), lines 350-358.
applyContrastBrightness(d, ct, br) ==
    [k \in DOMAIN d |->
        [r |-> adjustChannel(d[k].r, ct, br),
         g |-> adjustChannel(d[k].g, ct, br),
         b |-> adjustChannel(d[k].b, ct, br),
         a |-> d[k].a]]

\* getGrayscale, line 360, in thousandths of a luminance unit.
getGrayscale(px) == 299 * px.r + 587 * px.g + 114 * px.b

\* The luminance field of lines 400-403, in thousandths.
grayOf(d, ct, br) ==
    LET adj == applyContrastBrightness(d, ct, br)
    IN [k \in DOMAIN d |-> getGrayscale(adj[k])]

-----------------------------------------------------------------------------
(* IEEE 754 binary64 numbers, for the sums and means of case 'adaptive'.   *)
(* A natural number is the sequence of its digits in base 2^15, least      *)
(* significant first, with no leading zero digit (0 is << >>).  A double   *)
(* is [s, m, e]: the sign s (1 or -1), the 53-bit significand m and the    *)
(* exponent e of its lowest bit, standing for s * m * 2^e; zero has        *)
(* m = << >> and e = 0.  The luminances, sums and means of a conversion    *)
(* are far from the subnormal and the overflow range; the sign of a zero   *)
(* is not observed.  An operator evaluates an argument once by binding it, *)
(* x \in {a}.                                                              *)

Base == 2^15

\* The number of bits of the integer n >= 0.
RECURSIVE BitLen(_)
BitLen(n) == IF n = 0 THEN 0 ELSE 1 + BitLen(n \div 2)

RECURSIVE DigitsOf(_)
DigitsOf(n) == IF n = 0 THEN << >> ELSE <<n % Base>> \o DigitsOf(n \div Base)

RECURSIVE TrimDigits(_)
TrimDigits(a) ==
    CHOOSE r \in { IF x = << >> THEN x
                   ELSE IF x[Len(x)] # 0 THEN x
                   ELSE TrimDigits(SubSeq(x, 1, Len(x) - 1)) : x \in {a} } : TRUE

\* The number of bits of a.
BitsIn(a) == IF a = << >> THEN 0 ELSE 15 * (Len(a) - 1) + BitLen(a[Len(a)])

\* The digits of x + y + carry * Base^(k-1) from digit k on.
RECURSIVE AddFrom(_, _, _, _)
AddFrom(x, y, k, carry) ==
    IF k > Len(x) /\ k > Len(y)
    THEN IF carry = 0 THEN << >> ELSE <<carry>>
    ELSE LET t == (IF k <= Len(x) THEN x[k] ELSE 0)
                  + (IF k <= Len(y) THEN y[k] ELSE 0) + carry
         IN <<t % Base>> \o AddFrom(x, y, k + 1, t \div Base)

AddDigits(a, b) ==
    CHOOSE r \in { AddFrom(x, y, 1, 0) : x \in {a}, y \in {b} } : TRUE

\* The digits of x - y from digit k on with the borrow from digit k, x >= y.
RECURSIVE SubFrom(_, _, _, _)
SubFrom(x, y, k, borrow) ==
    IF k > Len(x) THEN << >>
    ELSE LET t == x[k] - (IF k <= Len(y) THEN y[k] ELSE 0) - borrow
         IN <<(t + Base) % Base>>
                \o SubFrom(x, y, k + 1, IF t < 0 THEN 1 ELSE 0)

SubDigits(a, b) ==
    CHOOSE r \in { TrimDigits(SubFrom(x, y, 1, 0)) : x \in {a}, y \in {b} } : TRUE

\* -1, 0 or 1 as a < b, a = b or a > b.
CmpDigits(a, b) ==
    CHOOSE r \in
        { IF Len(x) # Len(y) THEN (IF Len(x) < Len(y) THEN 0 - 1 ELSE 1)
          ELSE LET diff == {k \in 1..Len(x) : x[k] # y[k]}
               IN IF diff = {} THEN 0
                  ELSE LET top == CHOOSE k \in diff : \A j \in diff : j <= k
                       IN IF x[top] < y[top] THEN 0 - 1 ELSE 1 :
          x \in {a}, y \in {b} } : TRUE

\* The digits of x * n + carry * Base^(k-1) from digit k on, 0 <= n < Base.
RECURSIVE MulFrom(_, _, _, _)
MulFrom(x, n, k, carry) ==
    IF k > Len(x) THEN (IF carry = 0 THEN << >> ELSE <<carry>>)
    ELSE LET t == x[k] * n + carry
         IN <<t % Base>> \o MulFrom(x, n, k + 1, t \div Base)

MulDigits(a, n) ==
    CHOOSE r \in { IF m = 0 THEN << >> ELSE MulFrom(x, m, 1, 0) :
                   x \in {a}, m \in {n} } : TRUE

\* Long division of the digits k .. 1 of x by n, 0 < n < Base, with the
\* running remainder rem: [q, r], the quotient and the last remainder.
RECURSIVE DivFrom(_, _, _, _)
DivFrom(x, n, k, rem) ==
    IF k = 0 THEN [q |-> << >>, r |-> rem]
    ELSE CHOOSE res \in UNION
             { { [q |-> Append(low.q, t \div n), r |-> low.r] :
                 low \in {DivFrom(x, n, k - 1, t % n)} } :
               t \in {rem * Base + x[k]} } : TRUE

\* [q, r] with a = q * n + r and 0 <= r < n.
DivDigits(a, n) ==
    CHOOSE res \in UNION
        { { [q |-> TrimDigits(d.q), r |-> d.r] :
            d \in {DivFrom(x, m, Len(x), 0)} } :
          x \in {a}, m \in {n} } : TRUE

\* a * 2^k
ShiftLeft(a, k) ==
    CHOOSE r \in
        { IF x = << >> THEN x
          ELSE [i \in 1..(n \div 15) |-> 0] \o MulDigits(x, 2^(n % 15)) :
          x \in {a}, n \in {k} } : TRUE

\* [q, r] with q = floor(a / 2^k) and r = 0 exactly if a = q * 2^k.
ShiftRight(a, k) ==
    CHOOSE res \in UNION
        { { [q |-> d.q,
             r |-> IF d.r # 0 \/ \E i \in 1..Min(n \div 15, Len(x)) : x[i] # 0
                   THEN 1 ELSE 0] :
            d \in {DivDigits(SubSeq(x, n \div 15 + 1, Len(x)), 2^(n % 15))} } :
          x \in {a}, n \in {k} } : TRUE

\* The nearest double to m * 2^e for the natural number m, ties to even:
\* its significand and exponent.
RoundDigits(m, e) ==
    CHOOSE res \in UNION
        { IF len = 0 THEN {[m |-> << >>, e |-> 0]}
          ELSE IF len <= 53
               THEN {[m |-> ShiftLeft(t, 53 - len), e |-> x - (53 - len)]}
          ELSE UNION
            { { LET up == /\ half.r = 1
                          /\ (g.r = 1 \/ half.q[1] % 2 = 1)
                IN IF ~up THEN [m |-> half.q, e |-> x + len - 53]
                   ELSE LET r == AddDigits(half.q, <<1>>)
                        IN IF BitsIn(r) = 54
                           THEN [m |-> DivDigits(r, 2).q, e |-> x + len - 52]
                           ELSE [m |-> r, e |-> x + len - 53] :
                half \in {DivDigits(g.q, 2)} } :
              g \in {ShiftRight(t, len - 54)} } :
          t \in {TrimDigits(m)}, len \in {BitsIn(TrimDigits(m))}, x \in {e} } : TRUE

F64(s, mag) ==
    CHOOSE r \in { [s |-> s, m |-> v.m, e |-> v.e] : v \in {mag} } : TRUE

Zero64 == [s |-> 1, m |-> << >>, e |-> 0]

\* The double of the integer n.
FromInt64(n) ==
    F64(IF n < 0 THEN 0 - 1 ELSE 1,
        RoundDigits(DigitsOf(IF n < 0 THEN 0 - n ELSE n), 0))

\* The double with significand hi * 2^26 + lo and exponent e.
Literal64(hi, lo, e) ==
    [s |-> 1, m |-> AddDigits(ShiftLeft(DigitsOf(hi), 26), DigitsOf(lo)),
     e |-> e]

\* a + b
Add64(a, b) ==
    CHOOSE res \in UNION
        { IF x.m = << >> THEN {y}
          ELSE IF y.m = << >> THEN {x}
          ELSE UNION
            { { IF x.s = y.s THEN F64(x.s, RoundDigits(AddDigits(p, q), e))
                ELSE IF c = 0 THEN Zero64
                ELSE IF c > 0 THEN F64(x.s, RoundDigits(SubDigits(p, q), e))
                ELSE F64(y.s, RoundDigits(SubDigits(q, p), e)) :
                c \in {CmpDigits(p, q)} } :
              p \in {ShiftLeft(x.m, x.e - Min(x.e, y.e))},
              q \in {ShiftLeft(y.m, y.e - Min(x.e, y.e))},
              e \in {Min(x.e, y.e)} } :
          x \in {a}, y \in {b} } : TRUE

\* a - b
Sub64(a, b) ==
    CHOOSE r \in { Add64(a, [y EXCEPT !.s = 0 - y.s]) : y \in {b} } : TRUE

\* a * n for an integer n, 0 <= n < 2^15.
MulInt64(a, n) ==
    CHOOSE r \in { F64(x.s, RoundDigits(MulDigits(x.m, n), x.e)) :
                   x \in {a} } : TRUE

\* a / n for an integer n, 0 < n < 2^15.
DivInt64(a, n) ==
    CHOOSE res \in UNION
        { IF x.m = << >> THEN {x}
          ELSE UNION
            { { F64(x.s, RoundDigits(AddDigits(ShiftLeft(d.q, 1),
                                               IF d.r # 0 THEN <<1>> ELSE << >>),
                                     x.e - sh - 1)) :
                d \in {DivDigits(ShiftLeft(x.m, sh), n)} } :
              sh \in {BitLen(n) + 2} } :
          x \in {a} } : TRUE

\* a < b
Lt64(a, b) ==
    CHOOSE r \in
        { LET sx == IF x.m = << >> THEN 0 ELSE x.s
              sy == IF y.m = << >> THEN 0 ELSE y.s
              e == Min(x.e, y.e)
              c == CmpDigits(ShiftLeft(x.m, x.e - e), ShiftLeft(y.m, y.e - e))
          IN IF sx # sy THEN sx < sy
             ELSE IF sx = 0 THEN FALSE
             ELSE IF sx = 1 THEN c < 0 ELSE c > 0 :
          x \in {a}, y \in {b} } : TRUE

\* getGrayscale, line 360, as the program computes it:
\* 0.299 * r + 0.587 * g + 0.114 * b in doubles, left to right.
getGrayscale64(px) ==
    Add64(Add64(MulInt64(Literal64(80262201, 23085449, 0 - 54), px.r),
                MulInt64(Literal64(78785806, 22548578, 0 - 53), px.g)),
          MulInt64(Literal64(122406567, 62813897, 0 - 56), px.b))

\* The luminance field of lines 400-403, in doubles.
gray64Of(d, ct, br) ==
    CHOOSE r \in { [k \in DOMAIN d |-> getGrayscale64(adj[k])] :
                   adj \in {applyContrastBrightness(d, ct, br)} } : TRUE

-----------------------------------------------------------------------------
(* Simple and automatic threshold, lines 362-381, 409-413, 502-503         *)

\* Variant: the comparison reversed.
thresholdMap_gt(gray, t) ==
    [k \in DOMAIN gray |-> IF gray[k] > 1000 * t THEN 1 ELSE 0]

\* Variant: a luminance equal to the threshold counts as below it.
thresholdMap_le(gray, t) ==
    [k \in DOMAIN gray |-> IF gray[k] <= 1000 * t THEN 1 ELSE 0]

\* gray.map(g => g < t ? 1 : 0) for an integer t.
thresholdMap(gray, t) ==
    [k \in DOMAIN gray |-> IF gray[k] < 1000 * t THEN 1 ELSE 0]

\* Math.round of a luminance in thousandths: floor(x + 0.5).
MathRound(m) == (m + 500) \div 1000

\* n1/d1 > n2/d2 for n1, n2 >= 0 and d1, d2 > 0.
RatGt(n1, d1, n2, d2) ==
    \/ n1 \div d1 > n2 \div d2
    \/ /\ n1 \div d1 = n2 \div d2
       /\ (n1 % d1) * d2 > (n2 % d2) * d1

\* The histogram of line 363-364.
histogram(gray) ==
    [b \in 0..255 |->
        Cardinality({k \in DOMAIN gray : MathRound(gray[k]) = b})]

\* Line 367: the sum of i * hist[i] for i = lo .. hi-1 (lo < hi).
RECURSIVE histSum(_, _, _)
histSum(hist, lo, hi) ==
    IF hi = lo + 1 THEN lo * hist[lo]
    ELSE LET mid == (lo + hi) \div 2
         IN histSum(hist, lo, mid) + histSum(hist, mid, hi)

\* One iteration of the loop of lines 369-379, for bin i, on
\* Variant: a later bin that ties the maximum replaces it.
otsuStep_ge(hist, total, sum, i, st) ==
    LET wB == st.wB + hist[i]
        wF == total - wB
        sumB == st.sumB + i * hist[i]
        dif == sumB * wF - (sum - sumB) * wB
        gt == ~RatGt(st.maxN, st.maxD, dif * dif, wB * wF)
    IN IF st.done THEN st
       ELSE IF wB = 0 THEN st
       ELSE IF wF = 0 THEN [st EXCEPT !.wB = wB, !.done = TRUE]
       ELSE [sumB |-> sumB, wB |-> wB,
             maxN |-> IF gt THEN dif * dif ELSE st.maxN,
             maxD |-> IF gt THEN wB * wF ELSE st.maxD,
             thresh |-> IF gt THEN i ELSE st.thresh,
             done |-> FALSE]

\* st = [sumB, wB, maxN, maxD, thresh, done]; max is the fraction
\* maxN / maxD, done records the break of line 373, and
\* between = wB*wF*(mB - mF)^2 = (sumB*wF - (sum - sumB)*wB)^2 / (wB*wF).
otsuStep(hist, total, sum, i, st) ==
    LET wB == st.wB + hist[i]
        wF == total - wB
        sumB == st.sumB + i * hist[i]
        dif == sumB * wF - (sum - sumB) * wB
        gt == RatGt(dif * dif, wB * wF, st.maxN, st.maxD)
    IN IF st.done THEN st
       ELSE IF wB = 0 THEN st
       ELSE IF wF = 0 THEN [st EXCEPT !.wB = wB, !.done = TRUE]
       ELSE [sumB |-> sumB, wB |-> wB,
             maxN |-> IF gt THEN dif * dif ELSE st.maxN,
             maxD |-> IF gt THEN wB * wF ELSE st.maxD,
             thresh |-> IF gt THEN i ELSE st.thresh,
             done |-> FALSE]

\* The iterations for bins lo .. hi-1, in order.
RECURSIVE otsuBins(_, _, _, _, _, _)
otsuBins(hist, total, sum, lo, hi, st) ==
    IF lo = hi THEN st
    ELSE LET next == otsuStep(hist, total, sum, lo, st)
         IN IF next.done THEN next
            ELSE otsuBins(hist, total, sum, lo + 1, hi, next)

\* The whole loop, sixteen bins at a time from bin 16 * c on.
RECURSIVE otsuLoop(_, _, _, _, _)
otsuLoop(hist, total, sum, c, st) ==
    IF c = 16 THEN st
    ELSE LET next == otsuBins(hist, total, sum, 16 * c, 16 * c + 16, st)
         IN IF next.done THEN next
            ELSE otsuLoop(hist, total, sum, c + 1, next)

\* otsuThreshold(grayscaleArr), lines 362-381.
otsuThreshold(gray) ==
    LET hist == histogram(gray)
    IN otsuLoop(hist, Size(gray), histSum(hist, 0, 256), 0,
                [sumB |-> 0, wB |-> 0, maxN |-> 0, maxD |-> 1, thresh |-> 0,
                 done |-> FALSE]).thresh

-----------------------------------------------------------------------------
(* Ordered dithering, edge detection, adaptive threshold, lines 454-501    *)

bayer == << <<0, 8, 2, 10>>, <<12, 4, 14, 6>>,
            <<3, 11, 1, 9>>, <<15, 7, 13, 5>> >>

\* Variant: the Bayer offset is applied at full strength whatever
\* ditherStrength is.
orderedMap_full(gray, w, thr, ds) ==
    [k \in DOMAIN gray |->
        LET x == k % w
            y == k \div w
            t100 == 100 * thr + (bayer[(y % 4) + 1][(x % 4) + 1] - 8) * 8 * 100
        IN IF 100 * gray[k] < 1000 * t100 THEN 1 ELSE 0]

\* case 'ordered', lines 454-462:
\* t = threshold + (bayer/16 - 0.5) * 128 * (ditherStrength/100).
orderedMap(gray, w, thr, ds) ==
    [k \in DOMAIN gray |->
        LET x == k % w
            y == k \div w
            t100 == 100 * thr + (bayer[(y % 4) + 1][(x % 4) + 1] - 8) * 8 * ds
        IN IF 100 * gray[k] < 1000 * t100 THEN 1 ELSE 0]

Abs(n) == IF n < 0 THEN 0 - n ELSE n

\* (g/1000)^2 as <<whole, millionths>>.
Square(g) ==
    LET a == Abs(g) \div 1000
        r == Abs(g) % 1000
        lo == 2000 * a * r + r * r
    IN <<a * a + lo \div 1000000, lo % 1000000>>

\* Math.sqrt(gx*gx + gy*gy) > sens for an integer sens >= 0.
magnitudeGt(gx, gy, sens) ==
    LET sx == Square(gx)
        sy == Square(gy)
        lo == sx[2] + sy[2]
        hi == sx[1] + sy[1] + lo \div 1000000
    IN hi > sens * sens \/ (hi = sens * sens /\ lo % 1000000 > 0)

\* The indices of gray read for the interior cell i, lines 472-473.
sobelReads(i, w) ==
    {i - w - 1, i - w, i - w + 1, i - 1, i + 1, i + w - 1, i + w, i + w + 1}

\* Variant: the right-hand column is not treated as border.
sobelCell_right(gray, w, h, x, y, es) ==
    IF x = 0 \/ y = 0 \/ y = h - 1 THEN 0
    ELSE LET i == y * w + x IN
         IF ~(sobelReads(i, w) \subseteq DOMAIN gray) THEN 0
         ELSE LET gx == 0 - gray[i - w - 1] + gray[i - w + 1]
                        - 2 * gray[i - 1] + 2 * gray[i + 1]
                        - gray[i + w - 1] + gray[i + w + 1]
                  gy == 0 - gray[i - w - 1] - 2 * gray[i - w]
                        - gray[i - w + 1] + gray[i + w - 1]
                        + 2 * gray[i + w] + gray[i + w + 1]
              IN IF magnitudeGt(gx, gy, es * 2) THEN 1 ELSE 0

\* One cell of case 'sobel', lines 467-475.  A read outside the array is
\* undefined, the magnitude is then NaN and the comparison false.
sobelCell(gray, w, h, x, y, es) ==
    IF x = 0 \/ x = w - 1 \/ y = 0 \/ y = h - 1 THEN 0
    ELSE LET i == y * w + x IN
         IF ~(sobelReads(i, w) \subseteq DOMAIN gray) THEN 0
         ELSE LET gx == 0 - gray[i - w - 1] + gray[i - w + 1]
                        - 2 * gray[i - 1] + 2 * gray[i + 1]
                        - gray[i + w - 1] + gray[i + w + 1]
                  gy == 0 - gray[i - w - 1] - 2 * gray[i - w]
                        - gray[i - w + 1] + gray[i + w - 1]
                        + 2 * gray[i + w] + gray[i + w + 1]
              IN IF magnitudeGt(gx, gy, es * 2) THEN 1 ELSE 0

\* case 'sobel', lines 463-479: one push per cell, row-major.
sobelMap(gray, w, h, es) ==
    [k \in 0..(w * h - 1) |-> sobelCell(gray, w, h, k % w, k \div w, es)]

\* Math.max(3, adaptiveBlockSize | 1), line 481.
blockSide(abs) == Max(3, IF abs % 2 = 0 THEN abs + 1 ELSE abs)

\* Variant: a neighbour is read whenever its index lies inside the array,
\* so that a window wraps round the left and right edges of the grid.
windowCells_wrap(w, h, x, y, half) ==
    LET side == 2 * half + 1
        ny(k) == y + ((k - 1) \div side) - half
        nx(k) == x + ((k - 1) % side) - half
        inGrid(k) == ny(k) * w + nx(k) >= 0 /\ ny(k) * w + nx(k) < w * h
        visited == SelectSeq([k \in 1..(side * side) |-> k], inGrid)
    IN [j \in 1..Len(visited) |-> ny(visited[j]) * w + nx(visited[j])]

\* The cells the loops of lines 486-494 add to sum for the cell (x, y), in
\* the order they are visited: dy and dx run from -half to half, and a cell
\* is read when it passes the test of line 489.
windowCells(w, h, x, y, half) ==
    LET side == 2 * half + 1
        ny(k) == y + ((k - 1) \div side) - half
        nx(k) == x + ((k - 1) % side) - half
        inGrid(k) == ny(k) >= 0 /\ ny(k) < h /\ nx(k) >= 0 /\ nx(k) < w
        visited == SelectSeq([k \in 1..(side * side) |-> k], inGrid)
    IN [j \in 1..Len(visited) |-> ny(visited[j]) * w + nx(visited[j])]

\* sum after the cells k, k + 1, ... have been added to acc, line 490.
RECURSIVE windowSum(_, _, _, _)
windowSum(lum, cells, k, acc) ==
    IF k > Len(cells) THEN acc
    ELSE CHOOSE r \in { windowSum(lum, cells, k + 1, next) :
                        next \in {Add64(acc, lum[cells[k]])} } : TRUE

\* The exact sum of the luminances of the cells k, k + 1, ..., thousandths.
RECURSIVE windowTotal(_, _, _)
windowTotal(gray, cells, k) ==
    IF k > Len(cells) THEN 0
    ELSE gray[cells[k]] + windowTotal(gray, cells, k + 1)

\* Lines 495-496 in doubles for the cells added to sum:
\* gray[idx] < sum / count - (threshold - 128) / 4.
belowLocalMean64(lum, idx, cells, thr) ==
    Lt64(lum[idx],
         Sub64(DivInt64(windowSum(lum, cells, 1, Zero64), Len(cells)),
               DivInt64(FromInt64(thr - 128), 4)))

\* Lines 495-496 for the cells added to sum.  gray is the luminance field
\* in exact thousandths and lum the same field in doubles.  The two sides
\* of line 496 are, exactly, multiples of 1/(4000 * count); the doubles the
\* program computes are within 10^-9 of them (at most count + 8 roundings
\* of relative size 2^-53 on numbers below 2^18, count <= 961).  So the
\* doubles compare as the exact values do unless those are equal, and then
\* the comparison is the one of the doubles.  With count = 0 the mean is
\* NaN and the comparison false.
belowLocalMean(gray, lum, idx, cells, thr) ==
    CHOOSE r \in
        { IF count = 0 THEN FALSE
          ELSE IF below # above THEN below < above
          ELSE belowLocalMean64(lum, idx, cells, thr) :
          count \in {Len(cells)},
          below \in {4 * Len(cells) * gray[idx]},
          above \in {4 * windowTotal(gray, cells, 1)
                     - Len(cells) * (thr - 128) * 1000} } : TRUE

\* One cell of case 'adaptive', lines 485-497.
adaptiveCell(gray, lum, w, h, x, y, thr, abs) ==
    CHOOSE r \in
        { IF belowLocalMean(gray, lum, y * w + x, cells, thr) THEN 1 ELSE 0 :
          cells \in {windowCells(w, h, x, y, blockSide(abs) \div 2)} } : TRUE

\* case 'adaptive', lines 480-501.
adaptiveMap(gray, lum, w, h, thr, abs) ==
    [k \in 0..(w * h - 1) |->
        adaptiveCell(gray, lum, w, h, k % w, k \div w, thr, abs)]

-----------------------------------------------------------------------------
(* Exact numbers of the dithering error buffer.                            *)
(* [i, c, d] stands for i + (c + d[1]/16 + d[2]/16^2 + ...) / 1000 with    *)
(* 0 <= c < 1000, d[k] in 0..15 and no trailing zero in d; c = -1 is NaN.  *)

NaN == [i |-> 0, c |-> 0 - 1, d |-> << >>]
IsNaN(a) == a.c < 0

RECURSIVE Trim(_)
Trim(d) ==
    IF Len(d) > 0 /\ d[Len(d)] = 0 THEN Trim(SubSeq(d, 1, Len(d) - 1)) ELSE d

Digit(d, k) == IF k <= Len(d) THEN d[k] ELSE 0

\* The number m / 1000.
FxMilli(m) == [i |-> m \div 1000, c |-> m % 1000, d |-> << >>]

\* a + b
FxAdd(a, b) ==
    IF IsNaN(a) \/ IsNaN(b) THEN NaN
    ELSE LET n == Max(Len(a.d), Len(b.d))
             cin[k \in 0..n] ==
                 IF k = n THEN 0
                 ELSE (Digit(a.d, k + 1) + Digit(b.d, k + 1) + cin[k + 1])
                          \div 16
             dg == [k \in 1..n |->
                       (Digit(a.d, k) + Digit(b.d, k) + cin[k]) % 16]
             cs == a.c + b.c + cin[0]
         IN [i |-> a.i + b.i + cs \div 1000, c |-> cs % 1000, d |-> Trim(dg)]

\* a - n for an integer n
FxSubInt(a, n) == IF IsNaN(a) THEN NaN ELSE [a EXCEPT !.i = @ - n]

\* a * m for a natural number m
FxMul(a, m) ==
    IF IsNaN(a) THEN NaN
    ELSE LET n == Len(a.d)
             cin[k \in 0..n] ==
                 IF k = n THEN 0 ELSE (m * a.d[k + 1] + cin[k + 1]) \div 16
             dg == [k \in 1..n |-> (m * a.d[k] + cin[k]) % 16]
             cs == m * a.c + cin[0]
         IN [i |-> m * a.i + cs \div 1000, c |-> cs % 1000, d |-> Trim(dg)]

\* a / 16
FxDiv16(a) ==
    IF IsNaN(a) THEN NaN
    ELSE LET t == 1000 * (a.i % 16) + a.c
         IN [i |-> a.i \div 16, c |-> t \div 16,
             d |-> Trim(<<t % 16>> \o a.d)]

\* a < t for an integer t; false for NaN.
FxLt(a, t) == ~IsNaN(a) /\ a.i < t

\* q * (ditherStrength / 100), line 406, for ditherStrength a multiple of
\* 25: q * (ds/25) * 4 / 16.
FxStrength(q, ds) == FxDiv16(FxMul(FxMul(q, ds \div 25), 4))

-----------------------------------------------------------------------------
(* Error-diffusion dithering, lines 414-453                                *)

\* Variant: the cell below and to the right receives 3/16 instead of 1/16.
fsWrites_w(idx, x, y, w, h, quant) ==
    (IF x + 1 < w
     THEN << <<idx + 1, FxDiv16(FxMul(quant, 7))>> >> ELSE << >>)
    \o (IF y + 1 < h
        THEN (IF x > 0
              THEN << <<idx + w - 1, FxDiv16(FxMul(quant, 3))>> >>
              ELSE << >>)
             \o << <<idx + w, FxDiv16(FxMul(quant, 5))>> >>
             \o (IF x + 1 < w
                 THEN << <<idx + w + 1, FxDiv16(FxMul(quant, 3))>> >>
                 ELSE << >>)
        ELSE << >>)

\* The additions to err made for one Floyd-Steinberg cell, lines 423-428,
\* in program order: <<index, amount>>.
fsWrites(idx, x, y, w, h, quant) ==
    (IF x + 1 < w
     THEN << <<idx + 1, FxDiv16(FxMul(quant, 7))>> >> ELSE << >>)
    \o (IF y + 1 < h
        THEN (IF x > 0
              THEN << <<idx + w - 1, FxDiv16(FxMul(quant, 3))>> >>
              ELSE << >>)
             \o << <<idx + w, FxDiv16(FxMul(quant, 5))>> >>
             \o (IF x + 1 < w
                 THEN << <<idx + w + 1, FxDiv16(FxMul(quant, 1))>> >>
                 ELSE << >>)
        ELSE << >>)

\* Variant: the cell two to the right is written without the test of line
\* 443.
atkWrites_wrap(idx, x, y, w, h, quant) ==
    (IF x + 1 < w THEN << <<idx + 1, quant>> >> ELSE << >>)
    \o << <<idx + 2, quant>> >>
    \o (IF y + 1 < h
        THEN (IF x > 0 THEN << <<idx + w - 1, quant>> >> ELSE << >>)
             \o << <<idx + w, quant>> >>
             \o (IF x + 1 < w THEN << <<idx + w + 1, quant>> >> ELSE << >>)
        ELSE << >>)
    \o (IF y + 2 < h THEN << <<idx + w * 2, quant>> >> ELSE << >>)

\* The additions to err made for one Atkinson cell, lines 442-449; quant is
\* already divided by 8.
atkWrites(idx, x, y, w, h, quant) ==
    (IF x + 1 < w THEN << <<idx + 1, quant>> >> ELSE << >>)
    \o (IF x + 2 < w THEN << <<idx + 2, quant>> >> ELSE << >>)
    \o (IF y + 1 < h
        THEN (IF x > 0 THEN << <<idx + w - 1, quant>> >> ELSE << >>)
             \o << <<idx + w, quant>> >>
             \o (IF x + 1 < w THEN << <<idx + w + 1, quant>> >> ELSE << >>)
        ELSE << >>)
    \o (IF y + 2 < h THEN << <<idx + w * 2, quant>> >> ELSE << >>)

\* err[j] += amount.  An index past the end reads undefined, stores NaN and
\* lengthens the array (the holes read as undefined, hence NaN).
addAt(err, j, amount) ==
    IF j \in DOMAIN err THEN [err EXCEPT ![j] = FxAdd(@, amount)]
    ELSE [k \in 0..j |-> IF k \in DOMAIN err THEN err[k] ELSE NaN]

RECURSIVE applyWrites(_, _)
applyWrites(err, ws) ==
    IF ws = << >> THEN err
    ELSE applyWrites(addAt(err, ws[1][1], ws[1][2]), Tail(ws))

\* Variant: Atkinson divides the error by 16 instead of 8.
quantOf_16(alg, old, newVal, ds) ==
    LET scaled == FxStrength(FxSubInt(old, newVal), ds)
    IN IF alg = "atkinson" THEN FxDiv16(scaled) ELSE scaled

\* The quantization error of a cell after scaling: line 422 for
\* Floyd-Steinberg, line 441 for Atkinson.
quantOf(alg, old, newVal, ds) ==
    LET scaled == FxStrength(FxSubInt(old, newVal), ds)
    IN IF alg = "atkinson" THEN FxDiv16(FxMul(scaled, 2)) ELSE scaled

\* One iteration of the inner loop, lines 418-428 and 437-449, on
\* st = [err, result, ...]; old, newVal and writes record what it did.
ditherCell(alg, st, idx, w, h, thr, ds) ==
    LET x == idx % w
        y == idx \div w
        old == IF idx \in DOMAIN st.err THEN st.err[idx] ELSE NaN
        newVal == IF FxLt(old, thr) THEN 0 ELSE 255
        quant == quantOf(alg, old, newVal, ds)
        ws == IF alg = "atkinson" THEN atkWrites(idx, x, y, w, h, quant)
              ELSE fsWrites(idx, x, y, w, h, quant)
    IN [err |-> applyWrites(st.err, ws),
        result |-> Push(st.result, IF newVal = 0 THEN 1 ELSE 0),
        old |-> old, newVal |-> newVal, writes |-> ws]

\* No dithering run in progress.
NoDither == [err |-> << >>, result |-> << >>, old |-> NaN, newVal |-> 0 - 1,
             writes |-> << >>]

\* const err = [...gray], lines 415 and 434, and let result = [], line 405.
ditherStart(gray) ==
    [err |-> [k \in DOMAIN gray |-> FxMilli(gray[k])],
     result |-> << >>, old |-> NaN, newVal |-> 0, writes |-> << >>]

\* The two nested loops of lines 416-430 and 435-451, continued from st:
\* the next cell is idx = y * gridWidth + x = result.length.
RECURSIVE ditherRun(_, _, _, _, _, _)
ditherRun(alg, st, w, h, thr, ds) ==
    LET idx == Size(st.result)
    IN IF idx >= w * h THEN st
       ELSE ditherRun(alg, ditherCell(alg, st, idx, w, h, thr, ds),
                      w, h, thr, ds)

-----------------------------------------------------------------------------
(* generatePattern, lines 383-513                                          *)

\* The parameter state generatePattern closes over.
Params ==
    [algorithm |-> algorithm, threshold |-> threshold,
     invertColors |-> invertColors, contrast |-> contrast,
     brightness |-> brightness, edgeSensitivity |-> edgeSensitivity,
     adaptiveBlockSize |-> adaptiveBlockSize,
     ditherStrength |-> ditherStrength]

\* The switch of lines 408-504: the flat result before inversion.
algorithmResult(gray, lum, w, h, p) ==
    CASE p.algorithm = "otsu" ->
             thresholdMap(gray, otsuThreshold(gray))
      [] p.algorithm \in {"floydSteinberg", "atkinson"} ->
             ditherRun(p.algorithm, ditherStart(gray), w, h,
                       p.threshold, p.ditherStrength).result
      [] p.algorithm = "ordered" ->
             orderedMap(gray, w, p.threshold, p.ditherStrength)
      [] p.algorithm = "sobel" ->
             sobelMap(gray, w, h, p.edgeSensitivity)
      [] p.algorithm = "adaptive" ->
             adaptiveMap(gray, lum, w, h, p.threshold,
                         p.adaptiveBlockSize)
      [] OTHER ->
             thresholdMap(gray, p.threshold)

\* Variant: the inversion is not applied.
invertResult_skip(result, inv) ==
    IF inv THEN result ELSE result

\* Line 506.
invertResult(result, inv) ==
    IF inv THEN [k \in DOMAIN result |-> 1 - result[k]] ELSE result

\* Variant: rows are cut at multiples of the height.
assemble_h(result, w, h) ==
    [y \in 0..(h - 1) |-> Slice(result, y * h, y * h + w)]

\* Lines 508-511.
assemble(result, w, h) ==
    [y \in 0..(h - 1) |-> Slice(result, y * w, (y + 1) * w)]

\* The pattern generatePattern publishes for the pixels d.
generatePattern(d, w, h, p) ==
    LET gray == grayOf(d, p.contrast, p.brightness)
        lum == gray64Of(d, p.contrast, p.brightness)
    IN assemble(invertResult(algorithmResult(gray, lum, w, h, p),
                             p.invertColors),
                w, h)

-----------------------------------------------------------------------------
(* Presets and parameter controls, lines 4-58, 229-243, 653-679            *)

AlgorithmIds == {"threshold", "otsu", "floydSteinberg", "atkinson",
                 "ordered", "adaptive", "sobel"}

\* ALGORITHM_GROUPS[group].algorithms[algo].defaults, lines 4-58.
presetDefaults ==
    [threshold |-> [threshold |-> 128, contrast |-> 100, brightness |-> 100],
     otsu |-> [contrast |-> 110, brightness |-> 100],
     floydSteinberg |-> [threshold |-> 128, ditherStrength |-> 100,
                         contrast |-> 100, brightness |-> 100],
     atkinson |-> [threshold |-> 128, ditherStrength |-> 100,
                   contrast |-> 110, brightness |-> 105],
     ordered |-> [threshold |-> 128, ditherStrength |-> 80,
                  contrast |-> 100, brightness |-> 100],
     adaptive |-> [threshold |-> 128, adaptiveBlockSize |-> 11,
                   contrast |-> 100, brightness |-> 100],
     sobel |-> [edgeSensitivity |-> 40, contrast |-> 120,
                brightness |-> 100]]

\* showThreshold and showDither, lines 534-535: the sliders that are mounted.
showThreshold(algo) ==
    algo \in {"threshold", "floydSteinberg", "atkinson", "ordered", "adaptive"}

showDither(algo) == algo \in {"floydSteinberg", "atkinson", "ordered"}

\* defaults[key] when the preset of algo defines it, else the current value.
presetValue(algo, key, current) ==
    IF algo \in DOMAIN presetDefaults /\ key \in DOMAIN presetDefaults[algo]
    THEN presetDefaults[algo][key] ELSE current

\* The effect of lines 516-518 after a render that changed a parameter.
effectPattern(img, d, w, h, p, old) ==
    IF img # NoImage THEN generatePattern(d, w, h, p) ELSE old

\* applyPreset(algo), lines 229-243, and the effect that follows.
applyPreset(algo) ==
    /\ edits < MaxEdits
    /\ edits' = edits + 1
    /\ algorithm' = algo
    /\ threshold' = presetValue(algo, "threshold", threshold)
    /\ contrast' = presetValue(algo, "contrast", contrast)
    /\ brightness' = presetValue(algo, "brightness", brightness)
    /\ ditherStrength' = presetValue(algo, "ditherStrength", ditherStrength)
    /\ edgeSensitivity' = presetValue(algo, "edgeSensitivity", edgeSensitivity)
    /\ adaptiveBlockSize' =
           presetValue(algo, "adaptiveBlockSize", adaptiveBlockSize)
    /\ UNCHANGED <<data, invertColors, run>>
    /\ UNCHANGED gridVars
    /\ UNCHANGED cropVars
    /\ pattern' = effectPattern(image, data, gridWidth, gridHeight, Params',
                                pattern)

\* The threshold slider, line 653.
setThreshold(v) ==
    /\ edits < MaxEdits
    /\ edits' = edits + 1
    /\ showThreshold(algorithm)
    /\ v # threshold
    /\ threshold' = v
    /\ UNCHANGED <<data, algorithm, invertColors, contrast, brightness,
                   edgeSensitivity, adaptiveBlockSize, ditherStrength, run>>
    /\ UNCHANGED gridVars
    /\ UNCHANGED cropVars
    /\ pattern' = effectPattern(image, data, gridWidth, gridHeight, Params',
                                pattern)

\* The dither-strength slider, line 660.
setDitherStrength(v) ==
    /\ edits < MaxEdits
    /\ edits' = edits + 1
    /\ showDither(algorithm)
    /\ v # ditherStrength
    /\ ditherStrength' = v
    /\ UNCHANGED <<data, algorithm, threshold, invertColors, contrast,
                   brightness, edgeSensitivity, adaptiveBlockSize, run>>
    /\ UNCHANGED gridVars
    /\ UNCHANGED cropVars
    /\ pattern' = effectPattern(image, data, gridWidth, gridHeight, Params',
                                pattern)

\* The 'invert' checkbox, line 679.
setInvertColors(b) ==
    /\ edits < MaxEdits
    /\ edits' = edits + 1
    /\ b # invertColors
    /\ invertColors' = b
    /\ UNCHANGED <<data, algorithm, threshold, contrast, brightness,
                   edgeSensitivity, adaptiveBlockSize, ditherStrength, run>>
    /\ UNCHANGED gridVars
    /\ UNCHANGED cropVars
    /\ pattern' = effectPattern(image, data, gridWidth, gridHeight, Params',
                                pattern)

-----------------------------------------------------------------------------
(* A dithering run, one loop iteration at a time                           *)

\* One iteration of the Floyd-Steinberg loops, lines 418-428.
fsCell ==
    /\ run # NoDither
    /\ algorithm = "floydSteinberg"
    /\ Size(run.result) < gridWidth * gridHeight
    /\ run' = ditherCell(algorithm, run, Size(run.result), gridWidth,
                         gridHeight, threshold, ditherStrength)
    /\ UNCHANGED <<data, algorithm, threshold, invertColors, contrast,
                   brightness, edgeSensitivity, adaptiveBlockSize,
                   ditherStrength, pattern, edits>>
    /\ UNCHANGED gridVars
    /\ UNCHANGED cropVars

\* One iteration of the Atkinson loops, lines 437-449.
atkCell ==
    /\ run # NoDither
    /\ algorithm = "atkinson"
    /\ Size(run.result) < gridWidth * gridHeight
    /\ run' = ditherCell(algorithm, run, Size(run.result), gridWidth,
                         gridHeight, threshold, ditherStrength)
    /\ UNCHANGED <<data, algorithm, threshold, invertColors, contrast,
                   brightness, edgeSensitivity, adaptiveBlockSize,
                   ditherStrength, pattern, edits>>
    /\ UNCHANGED gridVars
    /\ UNCHANGED cropVars

\* The end of the run, lines 506-512: invert, assemble, setPattern.
publish ==
    /\ run # NoDither
    /\ Size(run.result) >= gridWidth * gridHeight
    /\ pattern' = assemble(invertResult(run.result, invertColors),
                           gridWidth, gridHeight)
    /\ run' = NoDither
    /\ UNCHANGED <<data, algorithm, threshold, invertColors, contrast,
                   brightness, edgeSensitivity, adaptiveBlockSize,
                   ditherStrength, edits>>
    /\ UNCHANGED gridVars
    /\ UNCHANGED cropVars

\* Lines 396-400 of the run the effect starts: the pixels of this run's
\* ImageData after applyContrastBrightness(data) has rewritten them.
tonedPixels(img, d, ct, br, old) ==
    IF img = NoImage THEN old ELSE [px |-> applyContrastBrightness(d, ct, br)]

\* The contrast slider, line 642.
setContrast(v) ==
    /\ edits < MaxEdits
    /\ edits' = edits + 1
    /\ v # contrast
    /\ contrast' = v
    /\ UNCHANGED <<data, algorithm, threshold, invertColors, brightness,
                   edgeSensitivity, adaptiveBlockSize, ditherStrength>>
    /\ UNCHANGED gridVars
    /\ UNCHANGED cropVars
    /\ run' = tonedPixels(image, data, v, brightness, run)
    /\ pattern' = effectPattern(image, data, gridWidth, gridHeight, Params',
                                pattern)

\* The brightness slider, line 647.
setBrightness(v) ==
    /\ edits < MaxEdits
    /\ edits' = edits + 1
    /\ v # brightness
    /\ brightness' = v
    /\ UNCHANGED <<data, algorithm, threshold, invertColors, contrast,
                   edgeSensitivity, adaptiveBlockSize, ditherStrength>>
    /\ UNCHANGED gridVars
    /\ UNCHANGED cropVars
    /\ run' = tonedPixels(image, data, contrast, v, run)
    /\ pattern' = effectPattern(image, data, gridWidth, gridHeight, Params',
                                pattern)

-----------------------------------------------------------------------------
(* generatePattern, one statement group at a time, and the events that     *)
(* run it again.  run holds its locals: gray, err, result and t, the       *)
(* value otsuThreshold returned (-1 when it was not called).               *)

\* No run is in progress: none has started yet or the last one has
\* returned.  Event handlers run between runs only.
RunIdle == IF "phase" \in DOMAIN run THEN run.phase = "done" ELSE TRUE

DitherIds == {"floydSteinberg", "atkinson"}

\* Variant: err is allocated once and keeps the values of the previous run.
runStart_carry(prev, alg, gray) ==
    [phase |-> "switch", gray |-> gray, t |-> 0 - 1,
     err |-> IF alg \in DitherIds
             THEN (IF Size(prev.err) > 0 THEN prev.err
                   ELSE ditherStart(gray).err)
             ELSE << >>,
     result |-> << >>, old |-> NaN, newVal |-> 0, writes |-> << >>]

\* Lines 384-405 and, for the two error-diffusion cases, line 415 or 434:
\* the locals of a run that starts after the locals prev of the run before.
\* gray is built from the pixels getImageData returns, err is [...gray],
\* result is [].
runStart(prev, alg, gray) ==
    [phase |-> "switch", gray |-> gray, t |-> 0 - 1,
     err |-> IF alg \in DitherIds THEN ditherStart(gray).err ELSE << >>,
     result |-> << >>, old |-> NaN, newVal |-> 0, writes |-> << >>]

\* The effect of lines 516-518 calls generatePattern for the image that
\* has just been decoded.
runBegin ==
    /\ image # NoImage
    /\ run = NoDither
    /\ converted = NoRun
    /\ run' = runStart(run, algorithm, grayOf(data, contrast, brightness))
    /\ UNCHANGED <<data, algorithm, threshold, invertColors, contrast,
                   brightness, edgeSensitivity, adaptiveBlockSize,
                   ditherStrength, pattern, edits>>
    /\ UNCHANGED gridVars
    /\ UNCHANGED cropVars

\* One iteration of the loops of lines 416-430 or 435-451: err and result
\* change, gray is not written.
runCell ==
    /\ ~RunIdle
    /\ run.phase = "switch"
    /\ algorithm \in DitherIds
    /\ Size(run.result) < gridWidth * gridHeight
    /\ run' = ditherCell(algorithm, run, Size(run.result), gridWidth,
                         gridHeight, threshold, ditherStrength)
              @@ [phase |-> "switch", gray |-> run.gray, t |-> run.t]
    /\ UNCHANGED <<data, algorithm, threshold, invertColors, contrast,
                   brightness, edgeSensitivity, adaptiveBlockSize,
                   ditherStrength, pattern, edits>>
    /\ UNCHANGED gridVars
    /\ UNCHANGED cropVars

\* The other cases of the switch, lines 409-413 and 454-503.
runMap ==
    /\ ~RunIdle
    /\ run.phase = "switch"
    /\ algorithm \notin DitherIds
    /\ run' = [run EXCEPT
                 !.phase = "break",
                 !.t = IF algorithm = "otsu" THEN otsuThreshold(run.gray)
                       ELSE 0 - 1,
                 !.result = algorithmResult(run.gray,
                                gray64Of(data, contrast, brightness),
                                gridWidth, gridHeight, Params)]
    /\ UNCHANGED <<data, algorithm, threshold, invertColors, contrast,
                   brightness, edgeSensitivity, adaptiveBlockSize,
                   ditherStrength, pattern, edits>>
    /\ UNCHANGED gridVars
    /\ UNCHANGED cropVars

\* Lines 506-512: invert, assemble, setPattern; the run returns.
runEnd ==
    /\ ~RunIdle
    /\ \/ run.phase = "break"
       \/ /\ algorithm \in DitherIds
          /\ Size(run.result) >= gridWidth * gridHeight
    /\ pattern' = assemble(invertResult(run.result, invertColors),
                           gridWidth, gridHeight)
    /\ converted' = [img |-> image, w |-> gridWidth, h |-> gridHeight]
    /\ run' = [run EXCEPT !.phase = "done"]
    /\ UNCHANGED <<image, imagePreview, gridWidth, gridHeight, aspectLock,
                   originalAspect, uploads, started>>
    /\ UNCHANGED <<data, algorithm, threshold, invertColors, contrast,
                   brightness, edgeSensitivity, adaptiveBlockSize,
                   ditherStrength, edits>>
    /\ UNCHANGED cropVars

\* The user chooses the file of the current image again, lines 314-316.
uploadAgain ==
    /\ RunIdle
    /\ image # NoImage
    /\ converted # NoRun
    /\ uploads = {}
    /\ handleImageUpload(image)

\* reader.onload of that upload, lines 317-334: the crop is set to a new
\* object, so generatePattern is re-created and the effect runs it.
readerOnloadRun(u) ==
    /\ RunIdle
    /\ u \in uploads
    /\ u.stage = "reading"
    /\ imagePreview' = u.file
    /\ crop' = FullCrop
    /\ uploads' = (uploads \ {u}) \cup {[u EXCEPT !.stage = "decoding"]}
    /\ run' = IF image # NoImage
              THEN runStart(run, algorithm,
                            grayOf(data, contrast, brightness))
              ELSE run
    /\ UNCHANGED <<image, gridWidth, gridHeight, aspectLock, originalAspect,
                   started, converted>>
    /\ UNCHANGED <<dragging, startPos, startCrop, gestures>>
    /\ UNCHANGED <<data, algorithm, threshold, invertColors, contrast,
                   brightness, edgeSensitivity, adaptiveBlockSize,
                   ditherStrength, pattern, edits>>

\* img.onload of that upload, lines 323-332: image is a new Image of the
\* same content, and the effect runs generatePattern.
imgOnloadRun(u) ==
    /\ RunIdle
    /\ u \in uploads
    /\ u.stage = "decoding"
    /\ image' = u.file
    /\ originalAspect' = <<u.file.w, u.file.h>>
    /\ gridHeight' = IF u.lock THEN RoundDiv(u.gw * u.file.h, u.file.w)
                     ELSE gridHeight
    /\ uploads' = uploads \ {u}
    /\ run' = runStart(run, algorithm, grayOf(data, contrast, brightness))
    /\ UNCHANGED <<imagePreview, gridWidth, aspectLock, started, converted>>
    /\ UNCHANGED cropVars
    /\ UNCHANGED <<data, algorithm, threshold, invertColors, contrast,
                   brightness, edgeSensitivity, adaptiveBlockSize,
                   ditherStrength, pattern, edits>>

-----------------------------------------------------------------------------
(* Specifications of the controls *)

InitApp ==
    /\ image = NoImage
    /\ imagePreview = NoImage
    /\ gridWidth = 50
    /\ gridHeight = 50
    /\ aspectLock = TRUE
    /\ originalAspect = <<1, 1>>
    /\ uploads = {}
    /\ started = 0
    /\ converted = NoRun
    /\ crop = FullCrop
    /\ dragging = "none"
    /\ startPos = [x |-> 0, y |-> 0]
    /\ startCrop = NoCrop
    /\ gestures = 0
    /\ data = << >>
    /\ algorithm = "threshold"
    /\ threshold = 128
    /\ invertColors = FALSE
    /\ contrast = 100
    /\ brightness = 100
    /\ edgeSensitivity = 40
    /\ adaptiveBlockSize = 11
    /\ ditherStrength = 100
    /\ pattern = << >>
    /\ run = NoDither
    /\ edits = 0

NextGrid ==
    \/ \E file \in ImageFiles : handleImageUpload(file)
    \/ \E u \in uploads : readerOnload(u)
    \/ \E u \in uploads : imgOnload(u)
    \/ \E v \in SliderValues : handleWidthChange(v)
    \/ \E v \in SliderValues : handleHeightChange(v)
    \/ \E b \in BOOLEAN : setAspectLock(b)
    \/ removeImage

SpecGrid == InitApp /\ [][NextGrid]_vars

\* The state once a first upload of a square image has completed.
InitCrop ==
    /\ image = [w |-> 400, h |-> 400]
    /\ imagePreview = image
    /\ gridWidth = 50
    /\ gridHeight = 50
    /\ aspectLock = TRUE
    /\ originalAspect = <<400, 400>>
    /\ uploads = {}
    /\ started = 1
    /\ converted = [img |-> image, w |-> 50, h |-> 50]
    /\ crop = FullCrop
    /\ dragging = "none"
    /\ startPos = [x |-> 0, y |-> 0]
    /\ startCrop = NoCrop
    /\ gestures = 0
    /\ data = << >>
    /\ algorithm = "threshold"
    /\ threshold = 128
    /\ invertColors = FALSE
    /\ contrast = 100
    /\ brightness = 100
    /\ edgeSensitivity = 40
    /\ adaptiveBlockSize = 11
    /\ ditherStrength = 100
    /\ pattern = << >>
    /\ run = NoDither
    /\ edits = 0

NextCrop ==
    \/ \E handle \in Handles, p \in Pointers : handleMouseDown(handle, p)
    \/ \E p \in Pointers : handleMouseMove(p)
    \/ handleMouseUp
    \/ resetCrop

SpecCrop == InitCrop /\ [][NextCrop]_vars

-----------------------------------------------------------------------------
(* Specifications of the conversion                                        *)

\* Pixel values of the sampled images: black, white, a mid-tone of
\* luminance exactly 128, and further colours.
Palette == << [r |-> 0, g |-> 0, b |-> 0, a |-> 255],
              [r |-> 255, g |-> 255, b |-> 255, a |-> 255],
              [r |-> 68, g |-> 164, b |-> 100, a |-> 255],
              [r |-> 200, g |-> 100, b |-> 50, a |-> 255],
              [r |-> 2, g |-> 0, b |-> 43, a |-> 255],
              [r |-> 90, g |-> 90, b |-> 90, a |-> 255] >>

NumTones == Min(Tones, Len(Palette))

\* The <<ca, cb>> of the sampled images: uniform, checkered and striped.
Coefficients == { <<0, 0>>, <<1, 1>>, <<2, 1>> }

\* A sampled image of w x h pixels over the first m palette entries: the
\* pixel of column x and row y is entry (ca * x + cb * y + cc) mod m.
SampledImage(w, h, m, ca, cb, cc) ==
    [k \in 0..(w * h - 1) |->
        Palette[((ca * (k % w) + cb * (k \div w) + cc) % m) + 1]]

SampledImages(w, h) ==
    { SampledImage(w, h, m, c[1], c[2], cc) :
          m \in 2..NumTones, c \in Coefficients, cc \in 0..(NumTones - 1) }

\* Values delivered by the threshold and dither-strength sliders.
ThresholdValues == {0, 128, 255}
DitherStrengthValues == {0, 100}

\* The effect of lines 516-518 after image or a parameter has changed:
\* generatePattern runs and publishes the pattern.
patternEffect ==
    /\ image # NoImage
    /\ converted = NoRun
    /\ pattern' = generatePattern(data, gridWidth, gridHeight, Params)
    /\ converted' = [img |-> image, w |-> gridWidth, h |-> gridHeight]
    /\ UNCHANGED <<image, imagePreview, gridWidth, gridHeight, aspectLock,
                   originalAspect, uploads, started>>
    /\ UNCHANGED cropVars
    /\ UNCHANGED <<data, algorithm, threshold, invertColors, contrast,
                   brightness, edgeSensitivity, adaptiveBlockSize,
                   ditherStrength, run, edits>>

\* An image has just been decoded (line 329) after the controls were set;
\* the effect that converts it has not run yet.
InitConv ==
    /\ image = [w |-> 400, h |-> 400]
    /\ imagePreview = image
    /\ gridWidth \in 1..MaxW
    /\ gridHeight \in 1..MaxH
    /\ aspectLock = TRUE
    /\ originalAspect = <<400, 400>>
    /\ uploads = {}
    /\ started = 1
    /\ converted = NoRun
    /\ crop = FullCrop
    /\ dragging = "none"
    /\ startPos = [x |-> 0, y |-> 0]
    /\ startCrop = NoCrop
    /\ gestures = 0
    /\ data \in SampledImages(gridWidth, gridHeight)
    /\ algorithm \in AlgorithmIds
    /\ threshold \in IF showThreshold(algorithm) THEN ThresholdValues
                     ELSE {128}
    /\ invertColors \in BOOLEAN
    /\ contrast = presetValue(algorithm, "contrast", 100)
    /\ brightness = presetValue(algorithm, "brightness", 100)
    /\ edgeSensitivity = presetValue(algorithm, "edgeSensitivity", 40)
    /\ adaptiveBlockSize = presetValue(algorithm, "adaptiveBlockSize", 11)
    /\ ditherStrength \in IF showDither(algorithm) THEN DitherStrengthValues
                          ELSE {100}
    /\ pattern = << >>
    /\ run = NoDither
    /\ edits = 0

NextConv == patternEffect

SpecConv == InitConv /\ [][NextConv]_vars

\* The sampled images of the control sequences.
ControlImages == SampledImages(2, 2)

\* An uploaded image has been converted with the initial parameters of
\* lines 208-218.
InitControls ==
    /\ image = [w |-> 400, h |-> 400]
    /\ imagePreview = image
    /\ gridWidth = 2
    /\ gridHeight = 2
    /\ aspectLock = TRUE
    /\ originalAspect = <<400, 400>>
    /\ uploads = {}
    /\ started = 1
    /\ converted = [img |-> image, w |-> gridWidth, h |-> gridHeight]
    /\ crop = FullCrop
    /\ dragging = "none"
    /\ startPos = [x |-> 0, y |-> 0]
    /\ startCrop = NoCrop
    /\ gestures = 0
    /\ data \in ControlImages
    /\ algorithm = "threshold"
    /\ threshold = 128
    /\ invertColors = FALSE
    /\ contrast = 100
    /\ brightness = 100
    /\ edgeSensitivity = 40
    /\ adaptiveBlockSize = 11
    /\ ditherStrength = 100
    /\ pattern = generatePattern(data, gridWidth, gridHeight, Params)
    /\ run = NoDither
    /\ edits = 0

\* applyPreset accepts any identifier; "stipple" stands for one that is not
\* in ALGORITHM_GROUPS.
NextControls ==
    \/ \E algo \in AlgorithmIds \cup {"stipple"} : applyPreset(algo)
    \/ \E v \in ThresholdValues : setThreshold(v)
    \/ \E v \in DitherStrengthValues : setDitherStrength(v)
    \/ \E b \in BOOLEAN : setInvertColors(b)

SpecControls == InitControls /\ [][NextControls]_vars

\* Values of the sample-area slider of line 674 (3, 5, ..., 31).
BlockSizes == {3, 5, 11}

\* Values of the threshold slider around the neutral 128.
AdaptiveThresholds == {0, 127, 128, 129, 255}

\* The sampled images and the images of one palette colour.
AdaptiveImages(w, h) ==
    SampledImages(w, h)
        \cup { [k \in 0..(w * h - 1) |-> Palette[c]] : c \in 1..Len(Palette) }

\* An image has just been decoded with the adaptive algorithm selected and
\* its sliders set; the effect that converts it has not run yet.
InitAdaptive ==
    /\ image = [w |-> 400, h |-> 400]
    /\ imagePreview = image
    /\ gridWidth \in 1..MaxW
    /\ gridHeight \in 1..MaxH
    /\ aspectLock = TRUE
    /\ originalAspect = <<400, 400>>
    /\ uploads = {}
    /\ started = 1
    /\ converted = NoRun
    /\ crop = FullCrop
    /\ dragging = "none"
    /\ startPos = [x |-> 0, y |-> 0]
    /\ startCrop = NoCrop
    /\ gestures = 0
    /\ data \in AdaptiveImages(gridWidth, gridHeight)
    /\ algorithm = "adaptive"
    /\ threshold \in AdaptiveThresholds
    /\ invertColors \in BOOLEAN
    /\ contrast = 100
    /\ brightness = 100
    /\ edgeSensitivity = 40
    /\ adaptiveBlockSize \in BlockSizes
    /\ ditherStrength = 100
    /\ pattern = << >>
    /\ run = NoDither
    /\ edits = 0

NextAdaptive == patternEffect

SpecAdaptive == InitAdaptive /\ [][NextAdaptive]_vars

\* Values of the edge-detail slider of line 667 (10 .. 100).
EdgeValues == {10, 40, 100}

\* An image has just been decoded with edge detection selected (preset
\* contrast 120) and its slider set; the effect has not run yet.
InitSobel ==
    /\ image = [w |-> 400, h |-> 400]
    /\ imagePreview = image
    /\ gridWidth \in 1..MaxEdgeW
    /\ gridHeight \in 1..MaxEdgeH
    /\ aspectLock = TRUE
    /\ originalAspect = <<400, 400>>
    /\ uploads = {}
    /\ started = 1
    /\ converted = NoRun
    /\ crop = FullCrop
    /\ dragging = "none"
    /\ startPos = [x |-> 0, y |-> 0]
    /\ startCrop = NoCrop
    /\ gestures = 0
    /\ data \in SampledImages(gridWidth, gridHeight)
    /\ algorithm = "sobel"
    /\ threshold = 128
    /\ invertColors \in BOOLEAN
    /\ contrast = presetValue("sobel", "contrast", 100)
    /\ brightness = presetValue("sobel", "brightness", 100)
    /\ edgeSensitivity \in EdgeValues
    /\ adaptiveBlockSize = 11
    /\ ditherStrength = 100
    /\ pattern = << >>
    /\ run = NoDither
    /\ edits = 0

NextSobel == patternEffect

SpecSobel == InitSobel /\ [][NextSobel]_vars

\* Values delivered by the contrast slider (line 642: 50 to 200) and by the
\* brightness slider (line 647: 50 to 150), the presets among them.
ContrastValues == {50, 100, 110, 120, 200}
BrightnessValues == {50, 100, 105, 150}

\* One-pixel images in which every channel takes every value of 0..255,
\* opaque, half transparent and transparent.
TonePixels ==
    { [k \in 0..0 |-> [r |-> v, g |-> 255 - v, b |-> (7 * v) % 256,
                       a |-> al]] :
          v \in 0..255, al \in {0, 128, 255} }

\* The effect of lines 516-518 for an image that has just been decoded:
\* patternEffect, with the pixels of the run after line 400.
tonedEffect ==
    /\ run = NoDither
    /\ run' = tonedPixels(image, data, contrast, brightness, run)
    /\ image # NoImage
    /\ converted = NoRun
    /\ pattern' = generatePattern(data, gridWidth, gridHeight, Params)
    /\ converted' = [img |-> image, w |-> gridWidth, h |-> gridHeight]
    /\ UNCHANGED <<image, imagePreview, gridWidth, gridHeight, aspectLock,
                   originalAspect, uploads, started>>
    /\ UNCHANGED cropVars
    /\ UNCHANGED <<data, algorithm, threshold, invertColors, contrast,
                   brightness, edgeSensitivity, adaptiveBlockSize,
                   ditherStrength, edits>>

\* A one-cell grid and an image that has just been decoded, with the
\* controls as lines 208-220 initialise them.
InitTone ==
    /\ image = [w |-> 400, h |-> 400]
    /\ imagePreview = image
    /\ gridWidth = 1
    /\ gridHeight = 1
    /\ aspectLock = TRUE
    /\ originalAspect = <<400, 400>>
    /\ uploads = {}
    /\ started = 1
    /\ converted = NoRun
    /\ crop = FullCrop
    /\ dragging = "none"
    /\ startPos = [x |-> 0, y |-> 0]
    /\ startCrop = NoCrop
    /\ gestures = 0
    /\ data \in TonePixels
    /\ algorithm = "threshold"
    /\ threshold = 128
    /\ invertColors = FALSE
    /\ contrast = 100
    /\ brightness = 100
    /\ edgeSensitivity = 40
    /\ adaptiveBlockSize = 11
    /\ ditherStrength = 100
    /\ pattern = << >>
    /\ run = NoDither
    /\ edits = 0

NextTone ==
    \/ tonedEffect
    \/ \E v \in ContrastValues : converted # NoRun /\ setContrast(v)
    \/ \E v \in BrightnessValues : converted # NoRun /\ setBrightness(v)

SpecTone == InitTone /\ [][NextTone]_vars

\* An image has just been decoded, with the aspect lock off, after the
\* controls were set; the effect that converts it has not run yet.
InitRerun ==
    /\ image = [w |-> 400, h |-> 400]
    /\ imagePreview = image
    /\ gridWidth \in 1..MaxRunW
    /\ gridHeight \in 1..MaxRunH
    /\ aspectLock = FALSE
    /\ originalAspect = <<400, 400>>
    /\ uploads = {}
    /\ started = 1
    /\ converted = NoRun
    /\ crop = FullCrop
    /\ dragging = "none"
    /\ startPos = [x |-> 0, y |-> 0]
    /\ startCrop = NoCrop
    /\ gestures = 0
    /\ data \in SampledImages(gridWidth, gridHeight)
    /\ algorithm \in AlgorithmIds
    /\ threshold = 128
    /\ invertColors \in BOOLEAN
    /\ contrast = presetValue(algorithm, "contrast", 100)
    /\ brightness = presetValue(algorithm, "brightness", 100)
    /\ edgeSensitivity = presetValue(algorithm, "edgeSensitivity", 40)
    /\ adaptiveBlockSize = presetValue(algorithm, "adaptiveBlockSize", 11)
    /\ ditherStrength = presetValue(algorithm, "ditherStrength", 100)
    /\ pattern = << >>
    /\ run = NoDither
    /\ edits = 0

NextRerun ==
    \/ runBegin
    \/ runCell
    \/ runMap
    \/ runEnd
    \/ uploadAgain
    \/ \E u \in uploads : readerOnloadRun(u)
    \/ \E u \in uploads : imgOnloadRun(u)

SpecRerun == InitRerun /\ [][NextRerun]_vars

ScanStrengths == {0, 50, 100, 200}

\* A dithering run about to start: an image has been uploaded after the
\* algorithm, threshold, strength and inversion were chosen; generatePattern
\* has computed gray and copied it to err (lines 402-415 or 434).
InitScan ==
    /\ image = [w |-> 400, h |-> 400]
    /\ imagePreview = image
    /\ gridWidth \in 1..MaxScanW
    /\ gridHeight \in 1..MaxScanH
    /\ aspectLock = TRUE
    /\ originalAspect = <<400, 400>>
    /\ uploads = {}
    /\ started = 1
    /\ converted = NoRun
    /\ crop = FullCrop
    /\ dragging = "none"
    /\ startPos = [x |-> 0, y |-> 0]
    /\ startCrop = NoCrop
    /\ gestures = 0
    /\ data \in SampledImages(gridWidth, gridHeight)
    /\ algorithm \in {"floydSteinberg", "atkinson"}
    /\ threshold \in {128, 255}
    /\ invertColors \in BOOLEAN
    /\ contrast = presetValue(algorithm, "contrast", 100)
    /\ brightness = presetValue(algorithm, "brightness", 100)
    /\ edgeSensitivity = 40
    /\ adaptiveBlockSize = 11
    /\ ditherStrength \in ScanStrengths
    /\ pattern = << >>
    /\ run = ditherStart(grayOf(data, contrast, brightness))
    /\ edits = 0

NextScan ==
    \/ fsCell
    \/ atkCell
    \/ publish

SpecScan == InitScan /\ [][NextScan]_vars

-----------------------------------------------------------------------------
(* Properties                                                              *)

\* A conversion has published the pattern of the current inputs.
Published == converted # NoRun

\* The luminance field of the current conversion (line 402).
CurrentGray == grayOf(data, contrast, brightness)

\* The same field in doubles.
CurrentGray64 == gray64Of(data, contrast, brightness)

\* The cells (rows y, columns x) of the current grid.
Rows == 0..(gridHeight - 1)
Cols == 0..(gridWidth - 1)

\* The pattern the current inputs give with some parameters replaced.
PatternWith(p) == generatePattern(data, gridWidth, gridHeight, p)

\* Thresholds tried beside the one in the state.
ThresholdSamples == {0, 1, 127, 128, 129, 254, 255}

\* The 2 x 2 luminance field [[0, 255], [255, 0]].
Checkerboard == [k \in 0..3 |-> IF k \in {0, 3} THEN 0 ELSE 255000]

\* C1: Under the simple threshold algorithm with inversion off, a published
\* cell is 1 exactly when its luminance is strictly below the threshold and
\* 0 when it is equal or above, for every threshold.  A uniform field of
\* luminance 128 at threshold 128 gives all 0 (all 1 with inversion on), and
\* the field [[0, 255], [255, 0]] at threshold 128 gives [[1, 0], [0, 1]].
C1_SimpleThresholdStrict ==
    (algorithm = "threshold" /\ Published) => \A gray \in {CurrentGray} :
        /\ ~invertColors =>
               \A y \in Rows, x \in Cols :
                   (pattern[y][x] = 1) <=>
                       (gray[y * gridWidth + x] < 1000 * threshold)
        /\ \A t \in ThresholdSamples :
               \A p \in {PatternWith([Params EXCEPT !.threshold = t,
                                                    !.invertColors = FALSE])} :
                   \A y \in Rows, x \in Cols :
                       p[y][x] = IF gray[y * gridWidth + x] < 1000 * t
                                 THEN 1 ELSE 0
        /\ (threshold = 128 /\ \A k \in DOMAIN gray : gray[k] = 128000) =>
               \A y \in Rows, x \in Cols :
                   pattern[y][x] = IF invertColors THEN 1 ELSE 0
        /\ (threshold = 128 /\ ~invertColors /\ gray = Checkerboard
              /\ gridWidth = 2) =>
               /\ pattern[0][0] = 1 /\ pattern[0][1] = 0
               /\ pattern[1][0] = 0 /\ pattern[1][1] = 1

C1_Witness ==
    /\ Published
    /\ algorithm = "threshold"
    /\ ~invertColors
    /\ threshold = 128
    /\ gridWidth = 2
    /\ gridHeight = 2
    /\ CurrentGray[0] = 0
    /\ CurrentGray[1] = 128000
    /\ CurrentGray[2] = 255000
    /\ pattern[0][0] = 1
    /\ pattern[0][1] = 0
    /\ pattern[1][0] = 0

C3_GridWithinLimits ==
    converted # NoRun =>
        /\ converted.w \in 10..200
        /\ converted.h \in 10..200

\* The crop rectangle is inside the unit square and at least 0.05 wide and
\* high.
CropWellFormed ==
    /\ crop.x1 \in 0..One
    /\ crop.y1 \in 0..One
    /\ crop.x2 \in 0..One
    /\ crop.y2 \in 0..One
    /\ crop.x2 - crop.x1 >= MinExtent
    /\ crop.y2 - crop.y1 >= MinExtent

CurrentResult ==
    invertResult(algorithmResult(CurrentGray, CurrentGray64, gridWidth,
                                 gridHeight, Params),
                 invertColors)

\* C5: For each of the seven algorithms the published pattern has gridHeight
\* rows of gridWidth cells, every cell is 0 or 1, and the cell of row y and
\* column x is the flat result at index y * gridWidth + x.
C5_PatternShape ==
    (algorithm \in AlgorithmIds /\ Published) =>
        \A flat \in {CurrentResult} :
            /\ DOMAIN pattern = Rows
            /\ \A y \in Rows :
                   /\ DOMAIN pattern[y] = Cols
                   /\ \A x \in Cols :
                          /\ pattern[y][x] \in {0, 1}
                          /\ pattern[y][x] = flat[y * gridWidth + x]

C5_Witness ==
    /\ Published
    /\ algorithm = "floydSteinberg"
    /\ gridWidth = 3
    /\ gridHeight = 2
    /\ pattern[0][0] = 0
    /\ pattern[0][2] = 1
    /\ pattern[1][0] = 1
    /\ pattern[1][2] = 0

\* The cell-wise complement of a grid.
Complement(g) == [y \in DOMAIN g |-> [x \in DOMAIN g[y] |-> 1 - g[y][x]]]

\* C6: With inversion on, the published grid is the cell-wise complement of
\* the grid the same algorithm gives for the same inputs with inversion off,
\* and complementing twice gives the grid back; inversion leaves the shape
\* unchanged.
C6_InversionIsComplement ==
    (algorithm \in AlgorithmIds /\ Published) =>
        \A off \in {PatternWith([Params EXCEPT !.invertColors = FALSE])} :
           /\ pattern = IF invertColors THEN Complement(off) ELSE off
           /\ Complement(Complement(pattern)) = pattern
           /\ DOMAIN Complement(pattern) = DOMAIN pattern

C6_Witness ==
    /\ Published
    /\ invertColors
    /\ algorithm = "atkinson"
    /\ gridWidth = 3
    /\ pattern[0][0] = 1
    /\ pattern[0][1] = 0
    /\ PatternWith([Params EXCEPT !.invertColors = FALSE])[0][0] = 0

\* The number of cells of a grid that are 1.
Ones(g) ==
    Cardinality({c \in Rows \X Cols : g[c[1]][c[2]] = 1})

\* C7: For a fixed luminance field under the simple threshold algorithm with
\* inversion off, raising the threshold never turns a 1 cell into 0 and
\* never lowers the number of 1 cells.
C7_ThresholdMonotone ==
    (algorithm = "threshold" /\ ~invertColors /\ Published) =>
        \A t \in ThresholdSamples :
            \A p \in {PatternWith([Params EXCEPT !.threshold = t])} :
                LET lo == IF t <= threshold THEN p ELSE pattern
                    hi == IF t <= threshold THEN pattern ELSE p
                IN /\ \A y \in Rows, x \in Cols :
                          lo[y][x] = 1 => hi[y][x] = 1
                   /\ Ones(lo) <= Ones(hi)

C7_Witness ==
    /\ Published
    /\ algorithm = "threshold"
    /\ ~invertColors
    /\ threshold = 255
    /\ Ones(pattern) > Ones(PatternWith([Params EXCEPT !.threshold = 128]))
    /\ Ones(PatternWith([Params EXCEPT !.threshold = 128])) > 0
    /\ Ones(pattern) < gridWidth * gridHeight

\* The rounded luminance of cell k.
Rounded(gray, k) == MathRound(gray[k])

\* Sum of the rounded luminances of the cells 0 .. n-1 that are at most t.
RECURSIVE SumBelow(_, _, _)
SumBelow(gray, t, n) ==
    IF n = 0 THEN 0
    ELSE SumBelow(gray, t, n - 1)
         + (IF Rounded(gray, n - 1) <= t THEN Rounded(gray, n - 1) ELSE 0)

\* The between-class variance wB * wF * (mB - mF)^2 of the split at t as
\* the fraction <<numerator, denominator>>; 0 when a class is empty.
BetweenClass(gray, t) ==
    \* [wB, wF, sumB, sumF]
    LET c == [wB |-> Cardinality({k \in DOMAIN gray : Rounded(gray, k) <= t}),
              wF |-> Cardinality({k \in DOMAIN gray : Rounded(gray, k) > t}),
              sumB |-> SumBelow(gray, t, Size(gray)),
              sumF |-> SumBelow(gray, 255, Size(gray))
                           - SumBelow(gray, t, Size(gray))]
    IN IF c.wB = 0 \/ c.wF = 0 THEN <<0, 1>>
       ELSE <<(c.sumB * c.wF - c.sumF * c.wB)
                  * (c.sumB * c.wF - c.sumF * c.wB), c.wB * c.wF>>

\* The variance at t is greater than the variance at u.
VarGt(gray, t, u) ==
    \A a \in {BetweenClass(gray, t)} : \A b \in {BetweenClass(gray, u)} :
        RatGt(a[1], a[2], b[1], b[2])

\* C8: otsuThreshold returns the smallest t in 0..255 that maximizes the
\* between-class variance computed from the histogram of rounded
\* luminances, and the otsu algorithm publishes what the simple threshold
\* publishes with that t.
C8_OtsuSmallestMaximizer ==
    (algorithm = "otsu" /\ Published) =>
        \A gray \in {CurrentGray} : \A t \in {otsuThreshold(gray)} :
            /\ t \in 0..255
            /\ \A u \in 0..255 : ~VarGt(gray, u, t)
            /\ \A u \in 0..(t - 1) : VarGt(gray, t, u)
            /\ pattern = PatternWith([Params EXCEPT !.algorithm = "threshold",
                                                    !.threshold = t])

C8_Witness ==
    /\ Published
    /\ algorithm = "otsu"
    /\ otsuThreshold(CurrentGray) > 0
    /\ otsuThreshold(CurrentGray) < 255
    /\ \E y \in Rows, x \in Cols : pattern[y][x] = 1
    /\ \E y \in Rows, x \in Cols : pattern[y][x] = 0

\* The sum of the error-buffer cells listed in js.
RECURSIVE ErrSum(_, _)
ErrSum(err, js) ==
    IF js = << >> THEN FxMilli(0)
    ELSE CHOOSE v \in { FxAdd(a, b) : a \in {err[js[1]]},
                                     b \in {ErrSum(err, Tail(js))} } : TRUE

\* The cell a dithering step is about to process, and its column and row.
ScanIdx == Size(run.result)
ScanX == ScanIdx % gridWidth
ScanY == ScanIdx \div gridWidth

\* The error of the cell being processed: old minus the value it is
\* quantized to, read from the buffer before and the result after the step.
ScanError ==
    FxSubInt(run.err[ScanIdx], IF run'.result[ScanIdx] = 1 THEN 0 ELSE 255)

\* The step leaves every error-buffer cell outside js as it was.
OnlyChanges(js) ==
    /\ DOMAIN run'.err = DOMAIN run.err
    /\ \A k \in DOMAIN run.err :
           (\A n \in 1..Len(js) : js[n] # k) => run'.err[k] = run.err[k]

ScanScaled ==
    CHOOSE v \in { FxStrength(error, ditherStrength) : error \in {ScanError} } :
        TRUE

\* Eight times the error-buffer number a.
Times8(a) == CHOOSE v \in { FxMul(b, 8) : b \in {a} } : TRUE

\* C10: Atkinson: for a cell whose six targets all lie inside the grid, each
\* target receives exactly one eighth of (old - newVal) * ditherStrength /
\* 100, six eighths in total, and the other two eighths are added nowhere.
C10_AtkinsonSixEighths ==
    [][(atkCell /\ ScanX > 0 /\ ScanX + 2 < gridWidth
          /\ ScanY + 2 < gridHeight) =>
           \A js \in {<<ScanIdx + 1, ScanIdx + 2, ScanIdx + gridWidth - 1,
                        ScanIdx + gridWidth, ScanIdx + gridWidth + 1,
                        ScanIdx + 2 * gridWidth>>} :
           \A scaled \in {ScanScaled} :
               /\ OnlyChanges(js)
               /\ \A n \in 1..6 :
                      \A before \in {Times8(run.err[js[n]])} :
                          Times8(run'.err[js[n]]) = FxAdd(before, scaled)
               /\ \A before \in {Times8(ErrSum(run.err, js))},
                     six \in {FxMul(scaled, 6)} :
                      Times8(ErrSum(run'.err, js)) = FxAdd(before, six)]_vars

C10_Witness ==
    /\ algorithm = "atkinson"
    /\ ditherStrength = 50
    /\ gridWidth = 4
    /\ gridHeight = 3
    /\ Size(run.result) = 2
    /\ Len(run.writes) = 6
    /\ run.writes[1][2] # FxMilli(0)
    /\ run.writes[1][2].c # 0


-----------------------------------------------------------------------------
\* C11: an ordered (Bayer) conversion with ditherStrength 0 publishes, for
\* every luminance field, threshold and grid size, exactly the grid the
\* simple threshold publishes for the same threshold and inversion.
C11_OrderedZeroIsThreshold ==
    (Published /\ algorithm = "ordered" /\ ditherStrength = 0)
        => \A simple \in {PatternWith([Params EXCEPT !.algorithm = "threshold"])} :
               pattern = simple

\* An ordered conversion with ditherStrength 0 of a 2 x 2 field whose cells
\* all have luminance 128, at threshold 128: at full strength the Bayer
\* offsets would make some cells 1, the published grid has none.
C11_Witness ==
    /\ Published
    /\ algorithm = "ordered"
    /\ ditherStrength = 0
    /\ threshold = 128
    /\ ~invertColors
    /\ gridWidth = 2
    /\ gridHeight = 2
    /\ \A k \in DOMAIN CurrentGray : CurrentGray[k] = 128000
    /\ pattern = [y \in 0..1 |-> [x \in 0..1 |-> 0]]
    /\ PatternWith([Params EXCEPT !.ditherStrength = 100]) # pattern

-----------------------------------------------------------------------------
\* C12: with the adaptive algorithm and inversion off, a luminance field
\* whose cells all hold the same value gives a grid whose cells are all
\* equal: all 0 when threshold >= 128 and all 1 when threshold < 128, for
\* every grid size and block size.
C12_UniformFieldUniformGrid ==
    (Published /\ algorithm = "adaptive" /\ ~invertColors)
        => \A lum \in {CurrentGray64} :
               (\A k \in DOMAIN lum : lum[k] = lum[0])
                   => \A y \in Rows : \A x \in Cols :
                          pattern[y][x] = IF threshold >= 128 THEN 0 ELSE 1

-----------------------------------------------------------------------------
\* The cell of column x and row y lies on the border of the grid.
OnBorder(x, y) ==
    x = 0 \/ x = gridWidth - 1 \/ y = 0 \/ y = gridHeight - 1

\* C13: with edge detection and inversion off, every border cell (x = 0,
\* x = gridWidth - 1, y = 0 or y = gridHeight - 1) of the published grid is
\* 0, for every field and edge sensitivity, and the gradient of an interior
\* cell reads only luminance indices in 0 .. gridWidth * gridHeight - 1.
C13_SobelBorderAndReads ==
    (Published /\ algorithm = "sobel" /\ ~invertColors)
        => \A y \in Rows : \A x \in Cols :
               IF OnBorder(x, y) THEN pattern[y][x] = 0
               ELSE sobelReads(y * gridWidth + x, gridWidth)
                        \subseteq 0..(gridWidth * gridHeight - 1)

\* An edge-detection grid with an interior cell of value 1 and a non-uniform
\* luminance on the border.
C13_Witness ==
    /\ Published
    /\ algorithm = "sobel"
    /\ ~invertColors
    /\ gridWidth >= 3
    /\ gridHeight >= 3
    /\ \E y \in Rows : \E x \in Cols : ~OnBorder(x, y) /\ pattern[y][x] = 1
    /\ \E k \in DOMAIN CurrentGray : CurrentGray[k] # CurrentGray[0]
    /\ \A y \in Rows : \A x \in Cols : OnBorder(x, y) => pattern[y][x] = 0

\* A run of generatePattern is in progress or has returned.
RunStarted == "phase" \in DOMAIN run

\* C14: a conversion that is run again on the same inputs publishes the
\* grid that is already displayed, whatever the algorithm; the Otsu split a
\* run computes is the one of the luminance field of the inputs; the
\* luminance field a run holds stays the one computed from the inputs while
\* the run diffuses errors; and every error-diffusion run starts from a new
\* copy of that field, with nothing left of the run before.
C14_RerunSameGrid ==
    /\ [](RunStarted => run.gray = CurrentGray)
    /\ []((RunStarted /\ algorithm \in DitherIds /\ Size(run.result) = 0)
              => run.err = ditherStart(CurrentGray).err)
    /\ []((RunStarted /\ algorithm = "otsu" /\ run.phase # "switch")
              => run.t = otsuThreshold(CurrentGray))
    /\ [][(Published /\ runEnd) => pattern' = pattern]_vars

C14_Witness ==
    /\ RunStarted
    /\ run.phase = "done"
    /\ algorithm = "floydSteinberg"
    /\ started = 2
    /\ uploads = {}
    /\ gridWidth = 2
    /\ gridHeight = 2
    /\ run.err # ditherStart(CurrentGray).err
    /\ \E y \in Rows : \E x \in Cols : pattern[y][x] = 1
    /\ \E y \in Rows : \E x \in Cols : pattern[y][x] = 0

\* The pixels of the latest run after line 400, once a run has made them.
Toned == "px" \in DOMAIN run

\* C15: after applyContrastBrightness every red, green and blue value is an
\* integer of 0..255 and every alpha value is the one it was; with contrast
\* 100 and brightness 100 the red, green and blue values are the ones they
\* were too.
C15_ContrastBrightness ==
    Toned =>
        \A k \in DOMAIN data :
            /\ run.px[k].a = data[k].a
            /\ {run.px[k].r, run.px[k].g, run.px[k].b} \subseteq 0..255
            /\ (contrast = 100 /\ brightness = 100)
                   => run.px[k] = data[k]

C15_Witness ==
    /\ Toned
    /\ edits = 2
    /\ contrast = 100
    /\ brightness = 100
    /\ data[0] = [r |-> 37, g |-> 218, b |-> 3, a |-> 128]
    /\ run.px = data

\* The neighbours <<dx, dy>> an error-diffusion cell hands error to: lines
\* 423-427 and lines 442-449.
Neighbours(alg) ==
    IF alg = "atkinson"
    THEN {<<1, 0>>, <<2, 0>>, <<0 - 1, 1>>, <<0, 1>>, <<1, 1>>, <<0, 2>>}
    ELSE {<<1, 0>>, <<0 - 1, 1>>, <<0, 1>>, <<1, 1>>}

\* C16: in a Floyd-Steinberg or Atkinson run the error buffer keeps the
\* length gridWidth * gridHeight; every addition made for cell idx goes to
\* an index j with idx < j < gridWidth * gridHeight whose column and row
\* are those of idx plus one of the intended offsets; and a step changes
\* neither the buffer at the cells up to idx nor the cells already emitted.
C16_DiffusionStaysInGrid ==
    /\ [](run # NoDither =>
              /\ DOMAIN run.err = 0..(gridWidth * gridHeight - 1)
              /\ \A n \in DOMAIN run.writes :
                     \A j \in {run.writes[n][1]} :
                         /\ ScanIdx - 1 < j
                         /\ j < gridWidth * gridHeight
                         /\ <<(j % gridWidth) - ((ScanIdx - 1) % gridWidth),
                              (j \div gridWidth)
                                  - ((ScanIdx - 1) \div gridWidth)>>
                                \in Neighbours(algorithm))
    /\ [][(fsCell \/ atkCell) =>
              /\ \A k \in 0..ScanIdx : run'.err[k] = run.err[k]
              /\ \A k \in DOMAIN run.result : run'.result[k] = run.result[k]
         ]_vars

C16_Witness ==
    /\ run # NoDither
    /\ algorithm = "atkinson"
    /\ gridWidth >= 3
    /\ gridHeight = 3
    /\ ScanIdx = gridWidth
    /\ Len(run.writes) = 3
    /\ run.err[2 * gridWidth - 2] # FxMilli(CurrentGray[2 * gridWidth - 2])
    /\ run.err[gridWidth - 1] = run.old

\* The cells of the square of side 2 * half + 1 centred on (x, y) that lie
\* in the grid, row by row.
ClippedSquare(w, h, x, y, half) ==
    LET x0 == Max(0, x - half)
        x1 == Min(w - 1, x + half)
        y0 == Max(0, y - half)
        y1 == Min(h - 1, y + half)
        cw == x1 - x0 + 1
    IN [j \in 1..(cw * (y1 - y0 + 1)) |->
           (y0 + ((j - 1) \div cw)) * w + x0 + ((j - 1) % cw)]

\* C17: the side of the block is adaptiveBlockSize when that is odd and
\* adaptiveBlockSize + 1 when it is even, and at least 3; for every cell the
\* cells averaged are the cells of the square of that side centred on it
\* that lie in the grid, each once and at least one, and the published cell
\* is the comparison of the cell with their mean.
C17_AdaptiveWindow ==
    /\ \A b \in 0..32 :
           blockSide(b) = Max(3, IF b % 2 = 1 THEN b ELSE b + 1)
    /\ (Published /\ algorithm = "adaptive") =>
           \A half \in {blockSide(adaptiveBlockSize) \div 2} :
           \A gray \in {CurrentGray} :
           \A lum \in {CurrentGray64} :
               /\ 2 * half + 1 = adaptiveBlockSize
               /\ \A y \in Rows : \A x \in Cols :
                      \A cells \in {windowCells(gridWidth, gridHeight,
                                                x, y, half)} :
                          /\ Len(cells) >= 1
                          /\ cells = ClippedSquare(gridWidth, gridHeight,
                                                   x, y, half)
                          /\ pattern[y][x] =
                                 IF belowLocalMean(gray, lum,
                                        y * gridWidth + x,
                                        ClippedSquare(gridWidth, gridHeight,
                                                      x, y, half),
                                        threshold) = invertColors
                                 THEN 0 ELSE 1

C17_Witness ==
    /\ Published
    /\ algorithm = "adaptive"
    /\ gridWidth = 3
    /\ gridHeight = 3
    /\ adaptiveBlockSize = 3
    /\ ~invertColors
    /\ threshold = 128
    /\ Len(windowCells(3, 3, 0, 0, 1)) = 4
    /\ Len(windowCells(3, 3, 1, 1, 1)) = 9
    /\ pattern[0][0] = 1
    /\ pattern[1][1] = 0
    /\ CurrentGray[0] < CurrentGray[4]

\* The luminances of the current field, in thousandths.
GrayValues == { CurrentGray[k] : k \in DOMAIN CurrentGray }

\* C18: when the luminance field holds exactly two values, both integers,
\* the otsu algorithm with inversion off publishes 1 for every cell of the
\* smaller value and 0 for every cell of the larger one.
C18_OtsuSeparatesTwoValues ==
    (Published /\ algorithm = "otsu" /\ ~invertColors
         /\ Cardinality(GrayValues) = 2
         /\ \A v \in GrayValues : v % 1000 = 0)
        => \A y \in Rows : \A x \in Cols :
               pattern[y][x] =
                   IF \A v \in GrayValues :
                          CurrentGray[y * gridWidth + x] <= v
                   THEN 1 ELSE 0

\* Every upload that was started has delivered both of its callbacks.
Quiescent == uploads = {}

\* C19: once every pending callback has fired, (1) if the preview is empty,
\* which is the case exactly when 'Remove Image' was clicked and no upload
\* was started after it, then image is null and no pattern is published;
\* (2) if two uploads were started, the image that was converted and the
\* preview are the same file.
C19_UploadsSettle ==
    Quiescent =>
        /\ imagePreview = NoImage => (image = NoImage /\ converted = NoRun)
        /\ started = 2 => converted.img = imagePreview

=============================================================================
